---- MODULE Spec2Model ----
(***************************************************************************)
(* Gym tracker client (data5570_mycode): the RTK Query cache and its tag   *)
(* invalidation (frontend/src/store), the WorkoutDayScreen save handlers   *)
(* and the payload that saveWorkout builds from the entered texts.         *)
(*                                                                         *)
(* Strings that the code parses or formats are sequences of one-character  *)
(* strings: "2025-01-31" is <<"2","0","2","5","-","0","1","-","3","1">>.   *)
(* Strings that the code only compares or passes on (endpoint names,       *)
(* notes) are TLA+ strings.                                                *)
(***************************************************************************)
EXTENDS Integers, Sequences, FiniteSets, TLC

VARIABLES
    queries,        \* api.queries: query cache key -> [status, subscribed]
    mutation,       \* api.mutations: the mutation sent last and its status
    date,           \* WorkoutDayScreen: route.params.date
    notes,          \* WorkoutDayScreen: notes state
    entries,        \* WorkoutDayScreen: strength entries state
    cardioEntries,  \* WorkoutDayScreen: cardio entries state
    notesRef,       \* notesRef.current
    entriesRef,     \* entriesRef.current
    cardioEntriesRef, \* cardioEntriesRef.current
    strengthModal,  \* strength modal: visible, mode, editing index, form
    cardioModal,    \* cardio modal: visible, mode, editing index, form
    workoutData,    \* data of useGetDayWorkoutQuery(date): <<>> or <<day>>
    saves,          \* saveDayWorkout calls of the screen, in issue order
    fetch,          \* the getDayWorkout request of the screen
    persisted,      \* server: date -> the stored DayWorkout
    formField,      \* payload check: the form field the text is typed in
    formText,       \* payload check: the text typed in that field
    builtPayload,   \* payload check: what saveWorkout built from the form
    invalidationBehavior, \* api.config.invalidationBehavior
    pendingTagInvalidations, \* tags whose invalidation waits for requests
    monthFetch,     \* the getMonthWorkouts request of the calendar
    monthData,      \* data of useGetMonthWorkoutsQuery: <<>> or <<summary>>
    timeZone,       \* the machine's time zone
    dateString,     \* parseLocalDate: the string given
    localDate,      \* parseLocalDate: the Date returned, <<>> before the call
    selectedExerciseId, \* AnalyticsScreen: selectedExerciseId state
    historyData,    \* data of useGetExerciseHistoryQuery: <<>> or <<history>>
    chartData,      \* AnalyticsScreen: chartData
    selectedYear,   \* state.ui.selectedYear
    selectedMonth,  \* state.ui.selectedMonth
    calendarCells,  \* CalendarScreen: calendarCells, <<>> before a render
    token,          \* state.auth.token
    sent,           \* the requests sent in the step just taken
    refreshToken,   \* state.auth.refreshToken
    user,           \* state.auth.user
    status,         \* state.auth.status
    error,          \* state.auth.error
    navigator,      \* RootNavigator: the navigator rendered
    fetchedWith,    \* query cache key -> the token its request carried
    customersState, \* state.customers: customers, loading, error
    thunks          \* the fetchCustomers and createCustomer calls in flight

cacheVars == <<queries, mutation>>
payloadVars == <<formField, formText, builtPayload>>
calendarVars == <<invalidationBehavior, pendingTagInvalidations, monthFetch,
                  monthData>>
analyticsVars == <<selectedExerciseId, historyData, chartData>>
uiVars == <<selectedYear, selectedMonth, calendarCells>>
sessionVars == <<refreshToken, user, status, error, navigator, fetchedWith>>
authVars == <<token, sent, sessionVars>>
customerVars == <<customersState, thunks>>
screenVars == <<timeZone, dateString, localDate, analyticsVars, uiVars, authVars,
                customerVars>>
localVars == <<notes, entries, cardioEntries, notesRef, entriesRef,
               cardioEntriesRef>>
modalVars == <<strengthModal, cardioModal>>
dayVars == <<date, notes, entries, cardioEntries, notesRef, entriesRef,
             cardioEntriesRef, strengthModal, cardioModal, workoutData,
             saves, fetch, persisted>>
vars == <<queries, mutation, date, notes, entries, cardioEntries, notesRef,
          entriesRef, cardioEntriesRef, strengthModal, cardioModal,
          workoutData, saves, fetch, persisted, formField, formText,
          builtPayload, invalidationBehavior, pendingTagInvalidations,
          monthFetch, monthData, screenVars>>

----------------------------------------------------------------------------
(* Bounds *)

\* longest text typed in a numeric form field
MaxTextLen == 3
\* most query cache entries held at a time
MaxCached == 3
\* most saveDayWorkout calls of one visit of the day screen
MaxSaves == 2
\* longest local list of strength entries, and of cardio entries
MaxEntries == 1
\* longest list handed to saveWorkout when the lists are taken on their own
MaxListLen == 3

----------------------------------------------------------------------------
(* JavaScript string and number primitives used by saveWorkout *)

Digits == {"0", "1", "2", "3", "4", "5", "6", "7", "8", "9"}

DigitVal(c) ==
    CASE c = "0" -> 0 [] c = "1" -> 1 [] c = "2" -> 2 [] c = "3" -> 3
      [] c = "4" -> 4 [] c = "5" -> 5 [] c = "6" -> 6 [] c = "7" -> 7
      [] c = "8" -> 8 [] c = "9" -> 9

DigitChar(n) ==
    CASE n = 0 -> "0" [] n = 1 -> "1" [] n = 2 -> "2" [] n = 3 -> "3"
      [] n = 4 -> "4" [] n = 5 -> "5" [] n = 6 -> "6" [] n = 7 -> "7"
      [] n = 8 -> "8" [] n = 9 -> "9"

RECURSIVE Pow10(_)
Pow10(n) == IF n = 0 THEN 1 ELSE 10 * Pow10(n - 1)

Max(a, b) == IF a >= b THEN a ELSE b

\* StrWhiteSpaceChar prefix removed by parseInt and parseFloat
RECURSIVE TrimStart(_)
TrimStart(s) ==
    IF s # <<>> /\ Head(s) = " " THEN TrimStart(Tail(s)) ELSE s

\* longest prefix of decimal digits
RECURSIVE DigitPrefix(_)
DigitPrefix(s) ==
    IF s # <<>> /\ Head(s) \in Digits
    THEN <<Head(s)>> \o DigitPrefix(Tail(s))
    ELSE <<>>

RECURSIVE DigitsValue(_)
DigitsValue(ds) ==
    IF ds = <<>> THEN 0
    ELSE 10 * DigitsValue(SubSeq(ds, 1, Len(ds) - 1)) + DigitVal(ds[Len(ds)])

\* A JavaScript number: NaN, or a decimal kept exactly as v / Scale.
\* Scale has one digit more than any fraction a text of MaxTextLen can hold.
Scale == Pow10(MaxTextLen)
NaN == [nan |-> TRUE, v |-> 0]
Num(n) == [nan |-> FALSE, v |-> n]

\* parseInt(string) with radix 10: whitespace, sign, digits; NaN without digits
parseInt(s) ==
    LET t == TrimStart(s)
        signed == t # <<>> /\ Head(t) \in {"-", "+"}
        neg == t # <<>> /\ Head(t) = "-"
        ds == DigitPrefix(IF signed THEN Tail(t) ELSE t)
    IN  IF ds = <<>> THEN NaN
        ELSE Num((IF neg THEN -1 ELSE 1) * DigitsValue(ds) * Scale)

\* parseFloat(string): whitespace, sign, digits [. digits] or . digits
parseFloat(s) ==
    LET t == TrimStart(s)
        signed == t # <<>> /\ Head(t) \in {"-", "+"}
        neg == t # <<>> /\ Head(t) = "-"
        body == IF signed THEN Tail(t) ELSE t
        ids == DigitPrefix(body)
        rest == SubSeq(body, Len(ids) + 1, Len(body))
        fds == IF rest # <<>> /\ Head(rest) = "." THEN DigitPrefix(Tail(rest))
               ELSE <<>>
        mag == DigitsValue(ids) * Scale
               + DigitsValue(fds) * Pow10(MaxTextLen - Len(fds))
    IN  IF ids = <<>> /\ fds = <<>> THEN NaN
        ELSE Num((IF neg THEN -1 ELSE 1) * mag)

\* x || d : d when x is falsy (NaN, 0, -0)
OrElse(x, d) == IF x.nan \/ x.v = 0 THEN d ELSE x

\* the parsed number without the floor of 1
MathMax1Absent(x) == x

\* Math.max(1, x) on numbers that are not NaN
MathMax1(x) == Num(Max(Scale, x.v))

RECURSIVE NatToStr(_)
NatToStr(n) ==
    IF n < 10 THEN <<DigitChar(n)>>
    ELSE NatToStr(n \div 10) \o <<DigitChar(n % 10)>>

\* the fraction digits of f / Scale, trailing zeros removed
RECURSIVE FracToStr(_, _)
FracToStr(f, width) ==
    IF f = 0 THEN <<>>
    ELSE <<DigitChar(f \div Pow10(width - 1))>>
         \o FracToStr(f % Pow10(width - 1), width - 1)

\* String(number) for a number that is not NaN
NumToStr(x) ==
    LET a == IF x.v < 0 THEN -x.v ELSE x.v
        ip == NatToStr(a \div Scale)
        fp == FracToStr(a % Scale, MaxTextLen)
    IN  (IF x.v < 0 THEN <<"-">> ELSE <<>>)
        \o ip \o (IF fp = <<>> THEN <<>> ELSE <<".">> \o fp)

\* String(x) of any number
String(x) == IF x.nan THEN <<"N", "a", "N">> ELSE NumToStr(x)

\* a JSON integer of the payload (the number is a whole one)
IsWhole(x) == ~x.nan /\ x.v % Scale = 0
IntOf(x) == x.v \div Scale

----------------------------------------------------------------------------
(* saveWorkout: the payload built from the local lists *)

\* null in the place of a catalog id (the server numbers its rows from 1)
NullId == 0
\* null in the place of a text (String() never returns the empty text)
NullText == <<>>

\* entries: validEntries.map(e => ({exercise_id, sets, reps, weight}))
StrengthPayload(e) ==
    [exercise_id |-> e.exercise_id,
     sets |-> MathMax1(OrElse(parseInt(e.sets), Num(Scale))),
     reps |-> MathMax1(OrElse(parseInt(e.reps), Num(Scale))),
     weight |-> String(OrElse(parseFloat(e.weight), Num(0)))]

\* cardio_entries: validCardioEntries.map(c => ({cardio_type_id, minutes, distance}))
CardioPayload(c) ==
    [cardio_type_id |-> c.cardio_type_id,
     minutes |-> MathMax1(OrElse(parseInt(c.minutes), Num(Scale))),
     distance |-> IF c.distance # <<>>
                  THEN String(OrElse(parseFloat(c.distance), Num(0)))
                  ELSE NullText]

\* the lists sent as they are
ValidEntriesUnfiltered(newEntries) == newEntries

ValidEntries(newEntries) ==
    SelectSeq(newEntries, LAMBDA e : e.exercise_id # NullId)

ValidCardioEntries(newCardioEntries) ==
    SelectSeq(newCardioEntries, LAMBDA c : c.cardio_type_id # NullId)

SaveWorkoutPayload(dateStr, notesText, newEntries, newCardioEntries) ==
    [date |-> dateStr,
     notes |-> notesText,
     entries |-> [i \in 1..Len(ValidEntries(newEntries)) |->
                     StrengthPayload(ValidEntries(newEntries)[i])],
     cardio_entries |-> [i \in 1..Len(ValidCardioEntries(newCardioEntries)) |->
                     CardioPayload(ValidCardioEntries(newCardioEntries)[i])]]

----------------------------------------------------------------------------
(* apiSlice: endpoints, the tags they provide and invalidate *)

\* a tag given as a bare string ('Workout') has no id
NoTagId == <<>>

Tag(type, id) == [type |-> type, id |-> id]

\* a whole number as a JavaScript number
JsInt(n) == Num(n * Scale)

\* string.split(sep)
RECURSIVE Split(_, _)
Split(s, sep) ==
    IF \A i \in 1..Len(s) : s[i] # sep THEN <<s>>
    ELSE LET p == CHOOSE i \in 1..Len(s) :
                      s[i] = sep /\ \A j \in 1..(i - 1) : s[j] # sep
         IN  <<SubSeq(s, 1, p - 1)>> \o Split(SubSeq(s, p + 1, Len(s)), sep)

\* Number(string) for the parts of a date string: the empty string is 0,
\* a digit string is its value (leading zeros dropped), other text is NaN
Number(s) ==
    IF s = <<>> THEN JsInt(0)
    ELSE IF DigitPrefix(s) = s THEN JsInt(DigitsValue(s))
    ELSE NaN

\* `${year}-${month}`
MonthTagId(year, month) == String(year) \o <<"-">> \o String(month)

\* `exercise-${exerciseId}`
ExerciseTagId(exerciseId) ==
    <<"e", "x", "e", "r", "c", "i", "s", "e", "-">> \o String(exerciseId)

\* a query cache key: the endpoint and its argument (fields an endpoint
\* does not take are empty)
QueryKey(endpoint, dateStr, year, month, exerciseId) ==
    [endpoint |-> endpoint, date |-> dateStr, year |-> year, month |-> month,
     exerciseId |-> exerciseId]

\* exercise history under a tag type of its own
ProvidesTagsHistoryApart(k) ==
    CASE k.endpoint = "getMonthWorkouts" ->
            {Tag("MonthWorkouts", MonthTagId(JsInt(k.year), JsInt(k.month))),
             Tag("Workout", NoTagId)}
      [] k.endpoint = "getDayWorkout" -> {Tag("Workout", k.date)}
      [] k.endpoint = "getAnalyticsSummary" -> {Tag("Analytics", NoTagId)}
      [] k.endpoint = "getExercises" -> {Tag("Exercise", NoTagId)}
      [] k.endpoint = "getCardioTypes" -> {Tag("CardioType", NoTagId)}
      [] k.endpoint = "getExerciseHistory" ->
            {Tag("ExerciseHistory", ExerciseTagId(JsInt(k.exerciseId)))}

\* providesTags of each query endpoint
ProvidesTags(k) ==
    CASE k.endpoint = "getMonthWorkouts" ->
            {Tag("MonthWorkouts", MonthTagId(JsInt(k.year), JsInt(k.month))),
             Tag("Workout", NoTagId)}
      [] k.endpoint = "getDayWorkout" -> {Tag("Workout", k.date)}
      [] k.endpoint = "getAnalyticsSummary" -> {Tag("Analytics", NoTagId)}
      [] k.endpoint = "getExercises" -> {Tag("Exercise", NoTagId)}
      [] k.endpoint = "getCardioTypes" -> {Tag("CardioType", NoTagId)}
      [] k.endpoint = "getExerciseHistory" ->
            {Tag("Analytics", ExerciseTagId(JsInt(k.exerciseId)))}

\* saveDayWorkout.invalidatesTags(result, error, {date})
\* a save that leaves the month's tag out
SaveInvalidatesTagsWithoutMonth(dateStr) ==
    {Tag("Workout", dateStr), Tag("Analytics", NoTagId)}

\* a save that takes the month of its tag as it is written in the date
SaveInvalidatesTagsAsWritten(dateStr) ==
    LET parts == Split(dateStr, "-")
    IN  {Tag("Workout", dateStr),
         Tag("MonthWorkouts", parts[1] \o <<"-">> \o parts[2]),
         Tag("Analytics", NoTagId)}

\* a save that invalidates the days of all dates
SaveInvalidatesTagsAllDays(dateStr) ==
    LET parts == Split(dateStr, "-")
        year == Number(parts[1])
        month == IF Len(parts) >= 2 THEN Number(parts[2]) ELSE NaN
    IN  {Tag("Workout", NoTagId),
         Tag("MonthWorkouts", MonthTagId(year, month)),
         Tag("Analytics", NoTagId)}

SaveInvalidatesTags(dateStr) ==
    LET parts == Split(dateStr, "-")
        year == Number(parts[1])
        month == IF Len(parts) >= 2 THEN Number(parts[2]) ELSE NaN
    IN  {Tag("Workout", dateStr),
         Tag("MonthWorkouts", MonthTagId(year, month)),
         Tag("Analytics", NoTagId)}

\* invalidatesTags of each mutation endpoint (login and register give none)
\* createExercise invalidating both catalogs
InvalidatesTagsBothCatalogs(m) ==
    CASE m.endpoint = "saveDayWorkout" -> SaveInvalidatesTags(m.date)
      [] m.endpoint = "createExercise" ->
            {Tag("Exercise", NoTagId), Tag("CardioType", NoTagId)}
      [] m.endpoint = "createCardioType" -> {Tag("CardioType", NoTagId)}
      [] OTHER -> {}

InvalidatesTags(m) ==
    CASE m.endpoint = "saveDayWorkout" -> SaveInvalidatesTags(m.date)
      [] m.endpoint = "createExercise" -> {Tag("Exercise", NoTagId)}
      [] m.endpoint = "createCardioType" -> {Tag("CardioType", NoTagId)}
      [] OTHER -> {}

\* RTK Query's tag matching: an invalidated tag without id reaches every
\* provided tag of its type, one with an id only the provided tag with
\* that type and id
TagMatches(inv, prov) ==
    /\ inv.type = prov.type
    /\ (inv.id = NoTagId \/ inv.id = prov.id)

\* an entry provides its tags once a fetch of it has completed
HasTags(e) == e.status \in {"fulfilled", "refetching"}

Hit(q, k, tags) ==
    /\ HasTags(q[k])
    /\ \E inv \in tags : \E prov \in ProvidesTags(k) : TagMatches(inv, prov)

Removed == [status |-> "uninitialized", subscribed |-> FALSE]

\* the cache after the tags are invalidated: an entry nobody subscribes to
\* is removed, a subscribed one is fetched again unless a fetch is under way
Invalidate(q, tags) ==
    [k \in DOMAIN q |->
        IF ~Hit(q, k, tags) THEN q[k]
        ELSE IF ~q[k].subscribed THEN Removed
        ELSE [status |-> "refetching", subscribed |-> TRUE]]

----------------------------------------------------------------------------
(* The cache under mounting screens and completing mutations *)

Date1 == <<"2", "0", "2", "5", "-", "0", "1", "-", "3", "1">>
Date2 == <<"2", "0", "2", "5", "-", "0", "2", "-", "0", "1">>
Dates == {Date1, Date2}

QueryKeys ==
    {QueryKey("getDayWorkout", d, 0, 0, 0) : d \in Dates}
    \cup {QueryKey("getMonthWorkouts", <<>>, 2025, m, 0) : m \in {1, 2}}
    \cup {QueryKey("getExerciseHistory", <<>>, 0, 0, x) : x \in {1, 2}}
    \cup {QueryKey(e, <<>>, 0, 0, 0) :
            e \in {"getAnalyticsSummary", "getExercises", "getCardioTypes"}}

\* what a mutation was called with, as far as the tags read it: the
\* endpoint and, of a day save, the date of the payload
MutationArg(endpoint, dateStr) == [endpoint |-> endpoint, date |-> dateStr]

MutationArgs ==
    {MutationArg("saveDayWorkout", d) : d \in Dates}
    \cup {MutationArg(e, <<>>) :
            e \in {"createExercise", "createCardioType", "login", "register"}}

NoArg == MutationArg("", <<>>)
NoMutation == [status |-> "uninitialized", arg |-> NoArg]

NoQueries == [k \in QueryKeys |-> Removed]

Cached(q) == {k \in DOMAIN q : q[k].status # "uninitialized"}

CacheInit ==
    /\ queries = NoQueries
    /\ mutation = NoMutation

\* a screen mounts a query hook: the entry gets a subscriber, and is fetched
\* when the cache does not hold it
Subscribe(k) ==
    /\ ~queries[k].subscribed
    /\ queries[k].status = "uninitialized" => Cardinality(Cached(queries)) < MaxCached
    /\ queries' = [queries EXCEPT ![k] =
            [status |-> IF @.status = "uninitialized" THEN "pending" ELSE @.status,
             subscribed |-> TRUE]]
    /\ UNCHANGED <<mutation, dayVars, payloadVars,
                   calendarVars, screenVars>>

\* the screen unmounts or its argument changes: the entry stays cached
Unsubscribe(k) ==
    /\ queries[k].subscribed
    /\ queries' = [queries EXCEPT ![k].subscribed = FALSE]
    /\ UNCHANGED <<mutation, dayVars, payloadVars,
                   calendarVars, screenVars>>

\* keepUnusedDataFor ran out on an entry without subscribers
Expire(k) ==
    /\ ~queries[k].subscribed
    /\ queries[k].status # "uninitialized"
    /\ queries' = [queries EXCEPT ![k] = Removed]
    /\ UNCHANGED <<mutation, dayVars, payloadVars,
                   calendarVars, screenVars>>

\* the response of a fetch arrives
FetchDone(k) ==
    /\ queries[k].status \in {"pending", "refetching"}
    /\ queries' = [queries EXCEPT ![k].status = "fulfilled"]
    /\ UNCHANGED <<mutation, dayVars, payloadVars,
                   calendarVars, screenVars>>

\* a mutation trigger is called
SendMutation(a) ==
    /\ mutation.status # "pending"
    /\ mutation' = [status |-> "pending", arg |-> a]
    /\ UNCHANGED <<queries, dayVars, payloadVars,
                   calendarVars, screenVars>>

\* the mutation's response arrives (fulfilled, or rejected with the
\* server's error): its tags are invalidated
CompleteMutation(outcome) ==
    /\ mutation.status = "pending"
    /\ mutation' = [mutation EXCEPT !.status = outcome]
    /\ queries' = Invalidate(queries, InvalidatesTags(mutation.arg))
    /\ UNCHANGED <<dayVars, payloadVars,
                   calendarVars, screenVars>>

Next ==
    \/ \E k \in QueryKeys : Subscribe(k)
    \/ \E k \in QueryKeys : Unsubscribe(k)
    \/ \E k \in QueryKeys : Expire(k)
    \/ \E k \in QueryKeys : FetchDone(k)
    \/ \E a \in MutationArgs : SendMutation(a)
    \/ \E outcome \in {"fulfilled", "rejected"} : CompleteMutation(outcome)

----------------------------------------------------------------------------
(* Claims about the cache *)

DayKey(d) == QueryKey("getDayWorkout", d, 0, 0, 0)
MonthKey(y, m) == QueryKey("getMonthWorkouts", <<>>, y, m, 0)
HistoryKey(x) == QueryKey("getExerciseHistory", <<>>, 0, 0, x)
SummaryKey == QueryKey("getAnalyticsSummary", <<>>, 0, 0, 0)
ExercisesKey == QueryKey("getExercises", <<>>, 0, 0, 0)
CardioTypesKey == QueryKey("getCardioTypes", <<>>, 0, 0, 0)

\* calendar year and month of a "YYYY-MM-DD" string, read off its columns
YearOf(d) == DigitsValue(SubSeq(d, 1, 4))
MonthOf(d) == DigitsValue(SubSeq(d, 6, 7))

\* this step is the completion of mutation endpoint e
Completes(e) ==
    /\ mutation.status = "pending"
    /\ mutation.arg.endpoint = e
    /\ mutation'.status \in {"fulfilled", "rejected"}

\* the entry holds a result that the screens are served
Served(q, k) == q[k].status \in {"fulfilled", "refetching"}

\* the entry was invalidated by this step: it held a result and now it is
\* gone from the cache or being fetched again
InvalidatedNow(k) ==
    Served(queries, k) => queries'[k].status \in {"uninitialized", "refetching"}

\* C1: when a saveDayWorkout for date D completes, the cached day of D, the
\* cached month summary of D's (year, month) and the cached analytics
\* summary are invalidated, whatever the date (the tags read nothing
\* else of the payload).
C1_SaveInvalidatesDayMonthAnalytics ==
    [][Completes("saveDayWorkout") =>
          /\ InvalidatedNow(DayKey(mutation.arg.date))
          /\ \A k \in QueryKeys :
                (/\ k.endpoint = "getMonthWorkouts"
                 /\ k.year = YearOf(mutation.arg.date)
                 /\ k.month = MonthOf(mutation.arg.date)) => InvalidatedNow(k)
          /\ InvalidatedNow(SummaryKey)]_vars

\* a save of Date1 completed while the day, its month and the
\* analytics summary were on screen: all three are being fetched again
C1_Witness ==
    /\ mutation = [status |-> "fulfilled",
                   arg |-> MutationArg("saveDayWorkout", Date1)]
    /\ queries[DayKey(Date1)] = [status |-> "refetching", subscribed |-> TRUE]
    /\ queries[MonthKey(2025, 1)] = [status |-> "refetching", subscribed |-> TRUE]
    /\ queries[SummaryKey] = [status |-> "refetching", subscribed |-> TRUE]

\* C2 as stated: a completing saveDayWorkout leaves every cached exercise
\* history entry as it was.
C2_SaveKeepsHistory ==
    [][Completes("saveDayWorkout") =>
          \A k \in QueryKeys :
              (k.endpoint = "getExerciseHistory" /\ Served(queries, k))
                  => queries'[k] = queries[k]]_vars

\* C2 amended: a completing saveDayWorkout invalidates every cached exercise
\* history entry, of any exercise id (the bare 'Analytics' tag of the save
\* reaches the entry's {Analytics, exercise-<id>} tag).
C2_SaveInvalidatesHistory ==
    [][Completes("saveDayWorkout") =>
          \A k \in QueryKeys :
              k.endpoint = "getExerciseHistory" => InvalidatedNow(k)]_vars

\* a save completed while the history of exercise 2 was cached and off
\* screen: the entry was removed
C2_Witness ==
    /\ mutation.status = "fulfilled"
    /\ mutation.arg.endpoint = "saveDayWorkout"
    /\ queries[HistoryKey(1)] = [status |-> "refetching", subscribed |-> TRUE]
    /\ queries[HistoryKey(2)] = Removed
    /\ queries[DayKey(mutation.arg.date)].status = "refetching"

\* C21: when a saveDayWorkout for any date completes, every cached month
\* summary, of any (year, month), is invalidated.
C21_SaveInvalidatesEveryMonth ==
    [][Completes("saveDayWorkout") =>
          \A k \in QueryKeys :
              k.endpoint = "getMonthWorkouts" => InvalidatedNow(k)]_vars

\* C22: a completing saveDayWorkout for date D leaves the cached day entry
\* of every other date as it was.
C22_SaveKeepsOtherDays ==
    [][Completes("saveDayWorkout") =>
          \A d \in Dates \ {mutation.arg.date} :
              queries'[DayKey(d)] = queries[DayKey(d)]]_vars

\* a save of Date1 completed while both days were on screen: the day of
\* Date1 is being fetched again, the day of Date2 is still the cached one
C22_Witness ==
    /\ mutation = [status |-> "fulfilled",
                   arg |-> MutationArg("saveDayWorkout", Date1)]
    /\ queries[DayKey(Date1)] = [status |-> "refetching", subscribed |-> TRUE]
    /\ queries[DayKey(Date2)] = [status |-> "fulfilled", subscribed |-> TRUE]

\* C3: createExercise invalidates the cached exercise list and leaves the
\* cached cardio-type list alone, createCardioType the reverse, and
\* saveDayWorkout, login and register leave both lists alone.
C3_CatalogInvalidatedByOwnCreate ==
    [][/\ Completes("createExercise") =>
            /\ InvalidatedNow(ExercisesKey)
            /\ queries'[CardioTypesKey] = queries[CardioTypesKey]
       /\ Completes("createCardioType") =>
            /\ InvalidatedNow(CardioTypesKey)
            /\ queries'[ExercisesKey] = queries[ExercisesKey]
       /\ \A e \in {"saveDayWorkout", "login", "register"} :
            Completes(e) =>
                /\ queries'[ExercisesKey] = queries[ExercisesKey]
                /\ queries'[CardioTypesKey] = queries[CardioTypesKey]]_vars

\* createExercise completed with both lists on screen: the exercise list is
\* being fetched again, the cardio-type list is still the cached one
C3_Witness ==
    /\ mutation.status = "fulfilled"
    /\ mutation.arg.endpoint = "createExercise"
    /\ queries[ExercisesKey] = [status |-> "refetching", subscribed |-> TRUE]
    /\ queries[CardioTypesKey] = [status |-> "fulfilled", subscribed |-> TRUE]

----------------------------------------------------------------------------
(* The payload of one form submission, for every text of a numeric field *)

\* characters a numeric field can hold: digits, sign, point, letter, blank
Alphabet == {"0", "1", "7", "-", ".", "a", " "}

Texts == UNION {[1..n -> Alphabet] : n \in 0..MaxTextLen}

Fields == {"sets", "reps", "weight", "minutes", "distance"}

\* date of the day screen when the route gives none
DefaultDate == <<"2", "0", "2", "5", "-", "1", "2", "-", "0", "8">>

\* strengthForm after an exercise was picked, one field retyped
StrengthFormWith(field, text) ==
    [exercise_id |-> 1,
     sets |-> IF field = "sets" THEN text ELSE <<"3">>,
     reps |-> IF field = "reps" THEN text ELSE <<"1", "0">>,
     weight |-> IF field = "weight" THEN text ELSE <<"0">>]

\* cardioForm after a cardio type was picked, one field retyped
CardioFormWith(field, text) ==
    [cardio_type_id |-> 1,
     minutes |-> IF field = "minutes" THEN text ELSE <<"3", "0">>,
     distance |-> IF field = "distance" THEN text ELSE <<>>]

PayloadInit ==
    /\ formField \in Fields
    /\ formText \in Texts
    /\ builtPayload = <<>>

\* saveWorkout([...entries, {...strengthForm}], [...cardioEntries, {...cardioForm}])
\* on an empty day: the payload handed to saveDayWorkout
BuildPayload ==
    /\ builtPayload = <<>>
    /\ builtPayload' = <<SaveWorkoutPayload(DefaultDate, "",
                             <<StrengthFormWith(formField, formText)>>,
                             <<CardioFormWith(formField, formText)>>)>>
    /\ UNCHANGED <<formField, formText, cacheVars, dayVars, calendarVars, screenVars>>

PayloadNext == BuildPayload

\* C9: every strength entry of a built payload has whole sets >= 1 and
\* reps >= 1, and every cardio entry whole minutes >= 1, whatever the text.
C9_IntegerFieldsAtLeastOne ==
    \A i \in 1..Len(builtPayload) :
        /\ \A k \in 1..Len(builtPayload[i].entries) :
              LET e == builtPayload[i].entries[k]
              IN  /\ IsWhole(e.sets) /\ IntOf(e.sets) >= 1
                  /\ IsWhole(e.reps) /\ IntOf(e.reps) >= 1
        /\ \A k \in 1..Len(builtPayload[i].cardio_entries) :
              LET c == builtPayload[i].cardio_entries[k]
              IN  IsWhole(c.minutes) /\ IntOf(c.minutes) >= 1

\* a payload was built from a text that parses to a number below 1
C9_Witness ==
    /\ builtPayload # <<>>
    /\ formField = "reps"
    /\ formText = <<"-", "7">>
    /\ IntOf(builtPayload[1].entries[1].reps) = 1
    /\ IntOf(builtPayload[1].entries[1].sets) = 3

\* C10 as stated: the weight of every strength entry of a built payload is
\* a decimal >= 0 (its text is a number and carries no minus sign).
C10_WeightNeverNegative ==
    \A i \in 1..Len(builtPayload) :
        \A k \in 1..Len(builtPayload[i].entries) :
            LET w == parseFloat(builtPayload[i].entries[k].weight)
            IN  ~w.nan /\ w.v >= 0

----------------------------------------------------------------------------
(* The server's day store (backend/, Django): GET and POST /workouts/day/ *)

\* catalog rows of the signed-in user
OwnedExercises == {1}
OwnedCardioTypes == {1}

EmptyDay == [notes |-> "", entries |-> <<>>, cardio_entries |-> <<>>]

\* the entries of a payload whose reference resolves to a row of the owner
ResolvableEntries(es) ==
    SelectSeq(es, LAMBDA e : e.exercise_id \in OwnedExercises)

ResolvableCardio(cs) ==
    SelectSeq(cs, LAMBDA c : c.cardio_type_id \in OwnedCardioTypes)

\* a save that adds the payload's entries to the stored ones
ServerSaveResultAppending(store, p) ==
    [store EXCEPT ![p.date] =
        [notes |-> p.notes,
         entries |-> @.entries \o ResolvableEntries(p.entries),
         cardio_entries |-> @.cardio_entries \o ResolvableCardio(p.cardio_entries)]]

\* a save that keeps what the payload does not replace with something
ServerSaveResultPatching(store, p) ==
    [store EXCEPT ![p.date] =
        [notes |-> p.notes,
         entries |-> IF p.entries = <<>> THEN @.entries
                     ELSE ResolvableEntries(p.entries),
         cardio_entries |-> IF p.cardio_entries = <<>> THEN @.cardio_entries
                            ELSE ResolvableCardio(p.cardio_entries)]]

\* POST /workouts/day/ that succeeds: the day of the payload's date is
\* replaced by the payload, entries with unresolvable references left out
ServerSaveResult(store, p) ==
    [store EXCEPT ![p.date] =
        [notes |-> p.notes,
         entries |-> ResolvableEntries(p.entries),
         cardio_entries |-> ResolvableCardio(p.cardio_entries)]]

\* a failing save that has deleted the old entries before it fails
ServerSaveRefusedHalfway(store, p) ==
    [store EXCEPT ![p.date].entries = <<>>, ![p.date].cardio_entries = <<>>]

\* POST /workouts/day/ that fails with StorageError: nothing is applied
ServerSaveRefused(store, p) == store

\* GET /workouts/day/?date=
ServerGetDay(store, d) == store[d]

----------------------------------------------------------------------------
(* WorkoutDayScreen *)

\* what the pickers offer: the cached exercise and cardio-type lists (the
\* cache outlives a logout, so a list may hold rows of another user)
PickerExercises == {1, 2}
PickerCardioTypes == {1}

\* texts typed in the notes field
NotesTexts == {"", "legs"}

EmptyStrengthForm ==
    [exercise_id |-> NullId, sets |-> <<"3">>, reps |-> <<"1", "0">>,
     weight |-> <<"0">>]

EmptyCardioForm ==
    [cardio_type_id |-> NullId, minutes |-> <<"3", "0">>, distance |-> <<>>]

\* editing index 0 stands for null (lists are numbered from 1 here). Mode,
\* index and form of a hidden modal are never read: each way of opening it
\* sets all three, so a hidden modal is kept in this one state. alert: the
\* "Please select ..." alert of a refused submit is up
ClosedStrengthModal ==
    [visible |-> FALSE, mode |-> "add", index |-> 0, form |-> EmptyStrengthForm,
     alert |-> FALSE]

ClosedCardioModal ==
    [visible |-> FALSE, mode |-> "add", index |-> 0, form |-> EmptyCardioForm,
     alert |-> FALSE]

\* useEffect([workoutData]): the local lists made from a fetched day
LocalEntries(data) ==
    [i \in 1..Len(data.entries) |->
        [exercise_id |-> data.entries[i].exercise_id,
         sets |-> String(data.entries[i].sets),
         reps |-> String(data.entries[i].reps),
         weight |-> data.entries[i].weight]]

LocalCardioEntries(data) ==
    [i \in 1..Len(data.cardio_entries) |->
        [cardio_type_id |-> data.cardio_entries[i].cardio_type_id,
         minutes |-> String(data.cardio_entries[i].minutes),
         distance |-> IF data.cardio_entries[i].distance # NullText
                      THEN data.cardio_entries[i].distance ELSE <<>>]]

NoFetch == [stage |-> "none", data |-> EmptyDay]

\* no month request under way
NoMonthFetch == [stage |-> "none", data |-> {}]

\* the parts a specification leaves alone
DayIdle ==
    /\ date = DefaultDate
    /\ notes = "" /\ entries = <<>> /\ cardioEntries = <<>>
    /\ notesRef = "" /\ entriesRef = <<>> /\ cardioEntriesRef = <<>>
    /\ strengthModal = ClosedStrengthModal
    /\ cardioModal = ClosedCardioModal
    /\ workoutData = <<>>
    /\ saves = <<>>
    /\ fetch = NoFetch
    /\ persisted = [d \in Dates |-> EmptyDay]

PayloadIdle == formField = "sets" /\ formText = <<>> /\ builtPayload = <<>>

\* AnalyticsScreen with no exercise chosen
AnalyticsIdle ==
    /\ selectedExerciseId = NullId
    /\ historyData = <<>>
    /\ chartData = <<>>

\* JavaScript's null, which is no string of characters
Null == <<"null">>

\* what reading a property a value does not have gives
Undefined == <<"u", "n", "d", "e", "f", "i", "n", "e", "d">>

\* state.auth.token: null, or the access token of a signed-in user
NullToken == Null
Tokens == {<<"a">>, <<"b">>}

\* the customers slice as created, no request of it in flight
CustomersIdle ==
    /\ customersState = [customers |-> <<>>, loading |-> FALSE, error |-> Null]
    /\ thunks = <<>>

\* a user is signed in and no request was sent in the step
AuthIdle ==
    /\ token \in Tokens /\ token = <<"a">>
    /\ sent = {}
    /\ refreshToken = <<"r">>
    /\ user = <<"a", "n", "n">>
    /\ status = "succeeded"
    /\ error = Null
    /\ navigator = "MainNavigator"
    /\ fetchedWith = <<>>

\* the calendar not rendered, on the year the ui slice starts with
UiIdle ==
    /\ selectedYear = 2025
    /\ selectedMonth = 1
    /\ calendarCells = <<>>

\* the other screens where a specification leaves them alone
ScreensIdle ==
    /\ timeZone = [offset |-> 0, skipped |-> 0]
    /\ dateString = <<>>
    /\ localDate = <<>>
    /\ AnalyticsIdle /\ UiIdle /\ AuthIdle /\ CustomersIdle

\* the calendar's query and the cache's waiting tags where a specification
\* leaves them alone
CalendarIdle ==
    /\ invalidationBehavior = "immediately"
    /\ pendingTagInvalidations = {}
    /\ monthFetch = NoMonthFetch
    /\ monthData = <<>>

\* a save call: the payload, where the request is (sent, applied or refused
\* by the server, fulfilled or rejected at the client), which earlier calls
\* were unresolved when it was issued, and what the awaiting handler holds
\* (the lists it will set; nothing once it has run)
SaveCall(payload, handler, heldEntries, heldCardio, pendingAtIssue) ==
    [payload |-> payload, stage |-> "sent", handler |-> handler,
     heldEntries |-> heldEntries, heldCardio |-> heldCardio,
     pendingAtIssue |-> pendingAtIssue]

InFlight(i) == saves[i].stage \in {"sent", "applied", "refused"}

Unresolved == {i \in 1..Len(saves) : InFlight(i)}

\* isLoading of useSaveDayWorkoutMutation: the call made last is unresolved
isSaving == saves # <<>> /\ InFlight(Len(saves))

\* the screen shows the day (not the loading view)
Loaded == workoutData # <<>>

NoModal == ~strengthModal.visible /\ ~cardioModal.visible

\* states of the server the screen can be opened on
InitialDays ==
    {EmptyDay,
     [notes |-> "",
      entries |-> <<StrengthPayload([EmptyStrengthForm EXCEPT !.exercise_id = 1])>>,
      cardio_entries |-> <<>>]}

\* the screen was mounted for a date: the day query is subscribed and its
\* first fetch is on the way, as are the two catalog queries' results
DayInit ==
    /\ date \in Dates
    /\ persisted \in [Dates -> InitialDays]
    /\ \A d \in Dates \ {date} : persisted[d] # EmptyDay
    /\ notes = "" /\ entries = <<>> /\ cardioEntries = <<>>
    /\ notesRef = "" /\ entriesRef = <<>> /\ cardioEntriesRef = <<>>
    /\ strengthModal = ClosedStrengthModal
    /\ cardioModal = ClosedCardioModal
    /\ workoutData = <<>>
    /\ saves = <<>>
    /\ fetch = [stage |-> "sent", data |-> EmptyDay]
    /\ queries = [k \in QueryKeys |->
            IF k = QueryKey("getDayWorkout", date, 0, 0, 0)
            THEN [status |-> "pending", subscribed |-> TRUE]
            ELSE IF k.endpoint \in {"getExercises", "getCardioTypes"}
            THEN [status |-> "fulfilled", subscribed |-> TRUE]
            ELSE Removed]
    /\ mutation = NoMutation

\* saveWorkout(newEntries, newCardioEntries) up to its await: the payload is
\* built and the request is sent
SendSave(newEntries, newCardioEntries, handler, heldEntries, heldCardio) ==
    /\ Len(saves) < MaxSaves
    /\ saves' = Append(saves,
            SaveCall(SaveWorkoutPayload(date, notesRef, newEntries, newCardioEntries),
                     handler, heldEntries, heldCardio, Unresolved))

\* onChangeText={setNotes}, and the effect that copies notes to notesRef
TypeNotes(t) ==
    /\ Loaded /\ NoModal
    /\ t # notes
    /\ notes' = t /\ notesRef' = t
    /\ UNCHANGED <<date, entries, cardioEntries, entriesRef, cardioEntriesRef,
                   modalVars, workoutData, saves, fetch, persisted, queries,
                   mutation, payloadVars,
                   calendarVars, screenVars>>

\* onBlur={handleSaveNotes}
handleSaveNotes ==
    /\ Loaded /\ NoModal
    /\ SendSave(entries, cardioEntries, "notes", <<>>, <<>>)
    /\ UNCHANGED <<date, localVars, modalVars, workoutData, fetch, persisted,
                   queries, mutation, payloadVars,
                   calendarVars, screenVars>>

openAddStrengthModal ==
    /\ Loaded /\ NoModal
    /\ strengthModal' = [ClosedStrengthModal EXCEPT !.visible = TRUE]
    /\ UNCHANGED <<date, localVars, cardioModal, workoutData, saves, fetch,
                   persisted, queries, mutation, payloadVars,
                   calendarVars, screenVars>>

openEditStrengthModal(i) ==
    /\ Loaded /\ NoModal
    /\ i \in 1..Len(entries)
    /\ strengthModal' = [visible |-> TRUE, mode |-> "edit", index |-> i,
                         form |-> entries[i], alert |-> FALSE]
    /\ UNCHANGED <<date, localVars, cardioModal, workoutData, saves, fetch,
                   persisted, queries, mutation, payloadVars,
                   calendarVars, screenVars>>

handleSelectExercise(x) ==
    /\ strengthModal.visible /\ ~strengthModal.alert
    /\ strengthModal.form.exercise_id # x
    /\ strengthModal' = [strengthModal EXCEPT !.form.exercise_id = x]
    /\ UNCHANGED <<date, localVars, cardioModal, workoutData, saves, fetch,
                   persisted, queries, mutation, payloadVars,
                   calendarVars, screenVars>>

\* the Cancel button of the strength form
CancelStrengthModal ==
    /\ strengthModal.visible /\ ~strengthModal.alert
    /\ strengthModal' = ClosedStrengthModal
    /\ UNCHANGED <<date, localVars, cardioModal, workoutData, saves, fetch,
                   persisted, queries, mutation, payloadVars,
                   calendarVars, screenVars>>

\* the lists handleSaveStrength would save: the form appended, or put in
\* the place of the entry being edited
StrengthFormApplied ==
    IF strengthModal.mode = "add" THEN Append(entries, strengthModal.form)
    ELSE [i \in 1..Len(entries) |->
            IF i = strengthModal.index THEN strengthModal.form ELSE entries[i]]

\* a submit that passes for any form
SelectedAlways(id) == TRUE

\* !strengthForm.exercise_id, !cardioForm.cardio_type_id: the form has a
\* selection
Selected(id) == id # NullId

\* handleSaveStrength without an exercise: the handler alerts and returns
SubmitStrengthRefused ==
    /\ strengthModal.visible /\ ~strengthModal.alert
    /\ ~isSaving
    /\ ~Selected(strengthModal.form.exercise_id)
    /\ strengthModal' = [strengthModal EXCEPT !.alert = TRUE]
    /\ UNCHANGED <<date, localVars, cardioModal, workoutData, saves, fetch,
                   persisted, queries, mutation, payloadVars,
                   calendarVars, screenVars>>

\* handleSaveStrength with an exercise, up to its await
SubmitStrengthSends ==
    /\ strengthModal.visible /\ ~strengthModal.alert
    /\ ~isSaving
    /\ Selected(strengthModal.form.exercise_id)
    /\ Len(StrengthFormApplied) <= Max(MaxEntries, Len(entries))
    /\ SendSave(StrengthFormApplied, cardioEntries, "strength",
                StrengthFormApplied, <<>>)
    /\ UNCHANGED <<date, localVars, modalVars, workoutData, fetch, persisted,
                   queries, mutation, payloadVars,
                   calendarVars, screenVars>>

\* the Save button of the strength form (disabled while isSaving)
handleSaveStrength == SubmitStrengthRefused \/ SubmitStrengthSends

\* the alert is dismissed
DismissStrengthAlert ==
    /\ strengthModal.alert
    /\ strengthModal' = [strengthModal EXCEPT !.alert = FALSE]
    /\ UNCHANGED <<date, localVars, cardioModal, workoutData, saves, fetch,
                   persisted, queries, mutation, payloadVars,
                   calendarVars, screenVars>>

\* handleDeleteStrength(index) up to its await, the confirm accepted: the
\* entry leaves the local list at once, the old list is held for rollback
handleDeleteStrength(i) ==
    /\ Loaded /\ NoModal
    /\ i \in 1..Len(entries)
    /\ LET currentEntries == entriesRef
           newEntries == SelectSeq([j \in 1..Len(currentEntries) |->
                                       <<j, currentEntries[j]>>],
                                   LAMBDA x : x[1] # i)
           kept == [j \in 1..Len(newEntries) |-> newEntries[j][2]]
       IN  /\ entries' = kept
           /\ entriesRef' = kept
           /\ SendSave(kept, cardioEntriesRef, "deleteStrength",
                       currentEntries, <<>>)
    /\ UNCHANGED <<date, notes, cardioEntries, notesRef, cardioEntriesRef,
                   modalVars, workoutData, fetch, persisted, queries, mutation,
                   payloadVars,
                   calendarVars, screenVars>>

openAddCardioModal ==
    /\ Loaded /\ NoModal
    /\ cardioModal' = [ClosedCardioModal EXCEPT !.visible = TRUE]
    /\ UNCHANGED <<date, localVars, strengthModal, workoutData, saves, fetch,
                   persisted, queries, mutation, payloadVars,
                   calendarVars, screenVars>>

openEditCardioModal(i) ==
    /\ Loaded /\ NoModal
    /\ i \in 1..Len(cardioEntries)
    /\ cardioModal' = [visible |-> TRUE, mode |-> "edit", index |-> i,
                       form |-> cardioEntries[i], alert |-> FALSE]
    /\ UNCHANGED <<date, localVars, strengthModal, workoutData, saves, fetch,
                   persisted, queries, mutation, payloadVars,
                   calendarVars, screenVars>>

handleSelectCardioType(c) ==
    /\ cardioModal.visible /\ ~cardioModal.alert
    /\ cardioModal.form.cardio_type_id # c
    /\ cardioModal' = [cardioModal EXCEPT !.form.cardio_type_id = c]
    /\ UNCHANGED <<date, localVars, strengthModal, workoutData, saves, fetch,
                   persisted, queries, mutation, payloadVars,
                   calendarVars, screenVars>>

\* the Cancel button of the cardio form
CancelCardioModal ==
    /\ cardioModal.visible /\ ~cardioModal.alert
    /\ cardioModal' = ClosedCardioModal
    /\ UNCHANGED <<date, localVars, strengthModal, workoutData, saves, fetch,
                   persisted, queries, mutation, payloadVars,
                   calendarVars, screenVars>>

CardioFormApplied ==
    IF cardioModal.mode = "add" THEN Append(cardioEntries, cardioModal.form)
    ELSE [i \in 1..Len(cardioEntries) |->
            IF i = cardioModal.index THEN cardioModal.form ELSE cardioEntries[i]]

\* handleSaveCardio without a cardio type: the handler alerts and returns
SubmitCardioRefused ==
    /\ cardioModal.visible /\ ~cardioModal.alert
    /\ ~isSaving
    /\ ~Selected(cardioModal.form.cardio_type_id)
    /\ cardioModal' = [cardioModal EXCEPT !.alert = TRUE]
    /\ UNCHANGED <<date, localVars, strengthModal, workoutData, saves, fetch,
                   persisted, queries, mutation, payloadVars,
                   calendarVars, screenVars>>

\* handleSaveCardio with a cardio type, up to its await
SubmitCardioSends ==
    /\ cardioModal.visible /\ ~cardioModal.alert
    /\ ~isSaving
    /\ Selected(cardioModal.form.cardio_type_id)
    /\ Len(CardioFormApplied) <= Max(MaxEntries, Len(cardioEntries))
    /\ SendSave(entries, CardioFormApplied, "cardio", <<>>, CardioFormApplied)
    /\ UNCHANGED <<date, localVars, modalVars, workoutData, fetch, persisted,
                   queries, mutation, payloadVars,
                   calendarVars, screenVars>>

\* the Save button of the cardio form (disabled while isSaving)
handleSaveCardio == SubmitCardioRefused \/ SubmitCardioSends

DismissCardioAlert ==
    /\ cardioModal.alert
    /\ cardioModal' = [cardioModal EXCEPT !.alert = FALSE]
    /\ UNCHANGED <<date, localVars, strengthModal, workoutData, saves, fetch,
                   persisted, queries, mutation, payloadVars,
                   calendarVars, screenVars>>

\* handleDeleteCardio(index) up to its await, the confirm accepted
handleDeleteCardio(i) ==
    /\ Loaded /\ NoModal
    /\ i \in 1..Len(cardioEntries)
    /\ LET currentCardioEntries == cardioEntriesRef
           newCardio == SelectSeq([j \in 1..Len(currentCardioEntries) |->
                                       <<j, currentCardioEntries[j]>>],
                                  LAMBDA x : x[1] # i)
           kept == [j \in 1..Len(newCardio) |-> newCardio[j][2]]
       IN  /\ cardioEntries' = kept
           /\ cardioEntriesRef' = kept
           /\ SendSave(entriesRef, kept, "deleteCardio", <<>>,
                       currentCardioEntries)
    /\ UNCHANGED <<date, notes, entries, notesRef, entriesRef, modalVars,
                   workoutData, fetch, persisted, queries, mutation,
                   payloadVars,
                   calendarVars, screenVars>>

\* the server handles a save request and replaces the day
ServerSave(i) ==
    /\ i \in 1..Len(saves)
    /\ saves[i].stage = "sent"
    /\ persisted' = ServerSaveResult(persisted, saves[i].payload)
    /\ saves' = [saves EXCEPT ![i].stage = "applied"]
    /\ UNCHANGED <<date, localVars, modalVars, workoutData, fetch, queries,
                   mutation, payloadVars,
                   calendarVars, screenVars>>

\* the server fails to store a save request
ServerSaveFails(i) ==
    /\ i \in 1..Len(saves)
    /\ saves[i].stage = "sent"
    /\ persisted' = ServerSaveRefused(persisted, saves[i].payload)
    /\ saves' = [saves EXCEPT ![i].stage = "refused"]
    /\ UNCHANGED <<date, localVars, modalVars, workoutData, fetch, queries,
                   mutation, payloadVars,
                   calendarVars, screenVars>>

\* the server answers the day fetch
ServerFetch ==
    /\ fetch.stage = "sent"
    /\ fetch' = [stage |-> "responded", data |-> ServerGetDay(persisted, date)]
    /\ UNCHANGED <<date, localVars, modalVars, workoutData, saves, persisted,
                   queries, mutation, payloadVars,
                   calendarVars, screenVars>>

\* the cache after a save call settled, and whether the day is fetched anew
\* (a fetch that is under way is not started again)
AfterSaveSettled(i) == Invalidate(queries, SaveInvalidatesTags(saves[i].payload.date))

RefetchStarts(i) ==
    /\ queries[QueryKey("getDayWorkout", date, 0, 0, 0)].status = "fulfilled"
    /\ AfterSaveSettled(i)[QueryKey("getDayWorkout", date, 0, 0, 0)].status
           = "refetching"

\* a response handling that sends a refused payload once more
SaveSettlesRetrying(i) ==
    /\ i \in 1..Len(saves)
    /\ saves[i].stage \in {"applied", "refused"}
    /\ saves' = IF saves[i].stage = "refused" /\ Len(saves) < MaxSaves
                THEN Append([saves EXCEPT ![i].stage = "rejected"],
                            SaveCall(saves[i].payload, saves[i].handler,
                                     <<>>, <<>>, Unresolved \ {i}))
                ELSE [saves EXCEPT
                        ![i].stage = IF @ = "applied" THEN "fulfilled"
                                     ELSE "rejected"]
    /\ queries' = AfterSaveSettled(i)
    /\ UNCHANGED <<date, localVars, modalVars, workoutData, fetch, persisted,
                   mutation, payloadVars,
                   calendarVars, screenVars>>

\* the response of save call i arrives: its tags are invalidated, and the
\* awaiting handler goes on (saveWorkout returns true or alerts and returns
\* false; add and edit set the list and close the form on success; delete
\* puts the held list back on failure)
SaveSettles(i) ==
    /\ i \in 1..Len(saves)
    /\ saves[i].stage \in {"applied", "refused"}
    /\ LET ok == saves[i].stage = "applied"
           h == saves[i].handler
       IN  /\ saves' = [saves EXCEPT
                        ![i].stage = IF ok THEN "fulfilled" ELSE "rejected",
                        ![i].heldEntries = <<>>,
                        ![i].heldCardio = <<>>]
           /\ queries' = AfterSaveSettled(i)
           /\ fetch' = IF RefetchStarts(i)
                       THEN [stage |-> "sent", data |-> EmptyDay] ELSE fetch
           /\ entries' = IF h = "strength" /\ ok THEN saves[i].heldEntries
                         ELSE IF h = "deleteStrength" /\ ~ok
                         THEN saves[i].heldEntries
                         ELSE entries
           /\ cardioEntries' = IF h = "cardio" /\ ok THEN saves[i].heldCardio
                               ELSE IF h = "deleteCardio" /\ ~ok
                               THEN saves[i].heldCardio
                               ELSE cardioEntries
           /\ entriesRef' = entries'
           /\ cardioEntriesRef' = cardioEntries'
           /\ strengthModal' = IF h = "strength" /\ ok
                               THEN ClosedStrengthModal
                               ELSE strengthModal
           /\ cardioModal' = IF h = "cardio" /\ ok
                             THEN ClosedCardioModal
                             ELSE cardioModal
    /\ UNCHANGED <<date, notes, notesRef, workoutData, persisted, mutation,
                   payloadVars,
                   calendarVars, screenVars>>

\* the response of the day fetch arrives; when the day differs from the one
\* held (structural sharing keeps an equal one), useEffect([workoutData])
\* sets notes and both lists from it
FetchSettles ==
    /\ fetch.stage = "responded"
    /\ fetch' = NoFetch
    /\ queries' = [queries EXCEPT
            ![QueryKey("getDayWorkout", date, 0, 0, 0)].status = "fulfilled"]
    /\ workoutData' = <<fetch.data>>
    /\ IF workoutData # <<fetch.data>>
       THEN /\ notes' = fetch.data.notes
            /\ entries' = LocalEntries(fetch.data)
            /\ cardioEntries' = LocalCardioEntries(fetch.data)
            /\ notesRef' = notes'
            /\ entriesRef' = entries'
            /\ cardioEntriesRef' = cardioEntries'
       ELSE UNCHANGED localVars
    /\ UNCHANGED <<date, modalVars, saves, persisted, mutation, payloadVars,
                   calendarVars, screenVars>>

DayNext ==
    \/ \E t \in NotesTexts : TypeNotes(t)
    \/ handleSaveNotes
    \/ openAddStrengthModal
    \/ \E i \in 1..MaxEntries : openEditStrengthModal(i)
    \/ \E x \in PickerExercises : handleSelectExercise(x)
    \/ CancelStrengthModal
    \/ handleSaveStrength
    \/ DismissStrengthAlert
    \/ \E i \in 1..MaxEntries : handleDeleteStrength(i)
    \/ openAddCardioModal
    \/ \E i \in 1..MaxEntries : openEditCardioModal(i)
    \/ \E c \in PickerCardioTypes : handleSelectCardioType(c)
    \/ CancelCardioModal
    \/ handleSaveCardio
    \/ DismissCardioAlert
    \/ \E i \in 1..MaxEntries : handleDeleteCardio(i)
    \/ \E i \in 1..MaxSaves : ServerSave(i)
    \/ \E i \in 1..MaxSaves : ServerSaveFails(i)
    \/ ServerFetch
    \/ \E i \in 1..MaxSaves : SaveSettles(i)
    \/ FetchSettles


\* the local lists a day screen can hold
StrengthLists ==
    UNION {[1..n -> {[EmptyStrengthForm EXCEPT !.exercise_id = x] :
                        x \in PickerExercises}] : n \in 0..MaxEntries}

CardioLists ==
    UNION {[1..n -> {[EmptyCardioForm EXCEPT !.cardio_type_id = c] :
                        c \in PickerCardioTypes}] : n \in 0..MaxEntries}

ServerInit ==
    /\ persisted = [d \in Dates |-> EmptyDay]
    /\ saves = <<>>
    /\ date = DefaultDate
    /\ notes = "" /\ entries = <<>> /\ cardioEntries = <<>>
    /\ notesRef = "" /\ entriesRef = <<>> /\ cardioEntriesRef = <<>>
    /\ strengthModal = ClosedStrengthModal
    /\ cardioModal = ClosedCardioModal
    /\ workoutData = <<>>
    /\ fetch = NoFetch
    /\ queries = NoQueries /\ mutation = NoMutation

\* a day screen is opened and posts the payload saveWorkout builds from its
\* date, notes and lists
PostDay(d, n, es, cs) ==
    /\ saves = <<>>
    /\ saves' = <<SaveCall(SaveWorkoutPayload(d, n, es, cs), "notes",
                           <<>>, <<>>, {})>>
    /\ UNCHANGED <<date, localVars, modalVars, workoutData, fetch, persisted,
                   queries, mutation, payloadVars,
                   calendarVars, screenVars>>

\* the screen saves once more what it has just saved (the notes field loses
\* focus again, nothing edited)
PostAgain ==
    /\ Len(saves) = 1
    /\ saves[1].stage = "fulfilled"
    /\ saves' = Append(saves, SaveCall(saves[1].payload, "notes", <<>>, <<>>, {}))
    /\ UNCHANGED <<date, localVars, modalVars, workoutData, fetch, persisted,
                   queries, mutation, payloadVars,
                   calendarVars, screenVars>>

\* the response of call i reaches the client
ResponseArrives(i) ==
    /\ i \in DOMAIN saves
    /\ saves[i].stage \in {"applied", "refused"}
    /\ saves' = [saves EXCEPT
            ![i].stage = IF @ = "applied" THEN "fulfilled" ELSE "rejected"]
    /\ UNCHANGED <<date, localVars, modalVars, workoutData, fetch, persisted,
                   queries, mutation, payloadVars,
                   calendarVars, screenVars>>

\* the screen is left, every call answered: its calls are forgotten
ScreenLeft ==
    /\ saves # <<>>
    /\ \A i \in DOMAIN saves : ~InFlight(i)
    /\ saves' = <<>>
    /\ UNCHANGED <<date, localVars, modalVars, workoutData, fetch, persisted,
                   queries, mutation, payloadVars,
                   calendarVars, screenVars>>

ServerNext ==
    \/ \E d \in Dates : \E n \in NotesTexts :
          \E es \in StrengthLists : \E cs \in CardioLists : PostDay(d, n, es, cs)
    \/ PostAgain
    \/ \E i \in 1..2 : ServerSave(i)
    \/ \E i \in 1..2 : ServerSaveFails(i)
    \/ \E i \in 1..2 : ResponseArrives(i)
    \/ ScreenLeft

----------------------------------------------------------------------------
(* Claims about the day screen and the server *)

\* C4 as stated: at most one saveDayWorkout request of the day screen is in
\* flight at any time.
C4_AtMostOneSaveInFlight == Cardinality(Unresolved) <= 1

\* what a fetch gives once the server has stored payload p
DayOf(p) == ServerGetDay(ServerSaveResult(persisted, p), p.date)

\* C5 as stated: when the save issued last was issued while the one before
\* it was unresolved, and both have been fulfilled and no save is in flight,
\* the stored day is the payload of the save issued last, and so are the
\* local lists once the refetch is in.
C5_LastIssuedWins ==
    (/\ Len(saves) >= 2
     /\ Unresolved = {}
     /\ (Len(saves) - 1) \in saves[Len(saves)].pendingAtIssue
     /\ saves[Len(saves)].stage = "fulfilled"
     /\ saves[Len(saves) - 1].stage = "fulfilled")
    => /\ persisted[date] = DayOf(saves[Len(saves)].payload)
       /\ fetch.stage = "none" =>
            /\ entries = LocalEntries(DayOf(saves[Len(saves)].payload))
            /\ cardioEntries = LocalCardioEntries(DayOf(saves[Len(saves)].payload))

\* this step is the server storing, or refusing, save call i
ServerApplies(i) ==
    i \in 1..Len(saves) /\ saves[i].stage = "sent" /\ saves'[i].stage = "applied"

ServerRefuses(i) ==
    i \in 1..Len(saves) /\ saves[i].stage = "sent" /\ saves'[i].stage = "refused"

SameStrength(a, b) ==
    /\ a.exercise_id = b.exercise_id
    /\ a.sets = b.sets /\ a.reps = b.reps
    /\ parseFloat(a.weight) = parseFloat(b.weight)

SameCardio(a, b) ==
    /\ a.cardio_type_id = b.cardio_type_id
    /\ a.minutes = b.minutes
    /\ IF a.distance = NullText \/ b.distance = NullText
       THEN a.distance = b.distance
       ELSE parseFloat(a.distance) = parseFloat(b.distance)

\* C6: once the server has stored a payload, a fetch of its date gives the
\* payload's notes and exactly its entries with a resolvable reference, in
\* order and equal by value, and no entry of before; other dates' days are
\* as they were.
C6_SaveIsFullReplace ==
    [][\A i \in DOMAIN saves : ServerApplies(i) =>
          LET p == saves[i].payload
              got == ServerGetDay(persisted', p.date)
              es == SelectSeq(p.entries, LAMBDA e : e.exercise_id \in OwnedExercises)
              cs == SelectSeq(p.cardio_entries,
                              LAMBDA c : c.cardio_type_id \in OwnedCardioTypes)
          IN  /\ got.notes = p.notes
              /\ Len(got.entries) = Len(es)
              /\ \A k \in 1..Len(es) : SameStrength(got.entries[k], es[k])
              /\ Len(got.cardio_entries) = Len(cs)
              /\ \A k \in 1..Len(cs) : SameCardio(got.cardio_entries[k], cs[k])
              /\ \A d \in Dates \ {p.date} : persisted'[d] = persisted[d]]_vars

\* the server stored a payload without strength entries over a day that had
\* one, while the other date holds a day: the entry is gone, the cardio
\* entry of the payload is there
C6_Witness ==
    /\ Len(saves) = 1
    /\ saves[1].stage = "applied"
    /\ saves[1].payload.date = Date1
    /\ saves[1].payload.entries = <<>>
    /\ Len(saves[1].payload.cardio_entries) = 1
    /\ persisted[Date1].entries = <<>>
    /\ Len(persisted[Date1].cardio_entries) = 1
    /\ Len(persisted[Date2].entries) = 1

\* C7: when the server stores a payload that it stored just before (the
\* same payload saved twice in a row), the fetched day of its date is the
\* one the first save gave: same entries, same values, none twice.
C7_SaveIsIdempotent ==
    [][(/\ Len(saves) = 2
        /\ saves[1].stage = "fulfilled"
        /\ saves[2].payload = saves[1].payload
        /\ ServerApplies(2))
       => ServerGetDay(persisted', saves[2].payload.date)
            = ServerGetDay(persisted, saves[2].payload.date)]_vars

\* the same payload, with an entry, was saved twice in a row and the day
\* holds the entry once
C7_Witness ==
    /\ Len(saves) = 2
    /\ saves[1].stage = "fulfilled" /\ saves[2].stage = "fulfilled"
    /\ saves[1].payload = saves[2].payload
    /\ Len(saves[2].payload.entries) = 1
    /\ Len(saves[2].payload.cardio_entries) = 1
    /\ Len(persisted[saves[2].payload.date].entries) = 1
    /\ Len(persisted[saves[2].payload.date].cardio_entries) = 1

\* C8: a save the server refuses leaves every stored day as it was.
C8_FailedSaveIsAtomic ==
    [][\A i \in DOMAIN saves : ServerRefuses(i) => persisted' = persisted]_vars

\* the server refused a payload without entries for a day that holds one
C8_Witness ==
    /\ Len(saves) = 1
    /\ saves[1].stage = "refused"
    /\ saves[1].payload.entries = <<>>
    /\ saves[1].payload.notes = "legs"
    /\ Len(persisted[saves[1].payload.date].entries) = 1
    /\ persisted[saves[1].payload.date].notes = ""

----------------------------------------------------------------------------
(* saveWorkout on lists that hold rows without a reference *)

\* local lists of any make: each row with an exercise (cardio type) of the
\* picker or with none
AnyStrengthLists ==
    UNION {[1..n -> {[EmptyStrengthForm EXCEPT !.exercise_id = x] :
                        x \in PickerExercises \cup {NullId}}] : n \in 0..MaxListLen}

AnyCardioLists ==
    UNION {[1..n -> {[EmptyCardioForm EXCEPT !.cardio_type_id = c] :
                        c \in PickerCardioTypes \cup {NullId}}] : n \in 0..MaxListLen}

\* the day screen, loaded, holding such lists
InitLists ==
    /\ date = DefaultDate
    /\ entries \in AnyStrengthLists
    /\ cardioEntries \in AnyCardioLists
    /\ entriesRef = entries /\ cardioEntriesRef = cardioEntries
    /\ notes = "" /\ notesRef = ""
    /\ strengthModal = ClosedStrengthModal
    /\ cardioModal = ClosedCardioModal
    /\ workoutData = <<EmptyDay>>
    /\ saves = <<>>
    /\ fetch = NoFetch
    /\ persisted = [d \in Dates |-> EmptyDay]
    /\ queries = NoQueries /\ mutation = NoMutation
    /\ formField = "sets" /\ formText = <<>> /\ builtPayload = <<>>
    /\ CalendarIdle /\ ScreensIdle

ListsNext == handleSaveNotes

\* C11: no payload sent holds a strength entry without exercise_id or a
\* cardio entry without cardio_type_id; the payload's entries are the local
\* rows that have a reference, in their order, and the request is sent.
C11_NullReferencesDropped ==
    \A i \in DOMAIN saves :
          LET p == saves[i].payload
              kept == {k \in DOMAIN entries : entries[k].exercise_id # NullId}
              keptCardio == {k \in DOMAIN cardioEntries :
                                cardioEntries[k].cardio_type_id # NullId}
          IN  /\ saves[i].stage = "sent"
              /\ \A k \in DOMAIN p.entries : p.entries[k].exercise_id # NullId
              /\ \A k \in DOMAIN p.cardio_entries :
                    p.cardio_entries[k].cardio_type_id # NullId
              /\ Len(p.entries) = Cardinality(kept)
              /\ \A k \in kept :
                    p.entries[Cardinality({j \in kept : j <= k})].exercise_id
                        = entries[k].exercise_id
              /\ Len(p.cardio_entries) = Cardinality(keptCardio)
              /\ \A k \in keptCardio :
                    p.cardio_entries[Cardinality({j \in keptCardio : j <= k})].cardio_type_id
                        = cardioEntries[k].cardio_type_id

\* a list with a row without exercise between two rows with different
\* exercises was saved: the payload holds the two, in order
C11_Witness ==
    /\ Len(saves) = 1
    /\ Len(entries) = 3
    /\ entries[1].exercise_id = 2
    /\ entries[2].exercise_id = NullId
    /\ entries[3].exercise_id = 1
    /\ Len(saves[1].payload.entries) = 2
    /\ saves[1].payload.entries[1].exercise_id = 2
    /\ saves[1].payload.entries[2].exercise_id = 1
    /\ Len(cardioEntries) = 1 /\ cardioEntries[1].cardio_type_id = NullId
    /\ saves[1].payload.cardio_entries = <<>>

----------------------------------------------------------------------------
(* The two forms of the day screen, no response arriving *)

\* a stored day with one cardio entry
CardioDay ==
    [notes |-> "",
     entries |-> <<>>,
     cardio_entries |-> <<CardioPayload([EmptyCardioForm EXCEPT !.cardio_type_id = 1])>>]

\* the day screen, loaded with a day of the server
InitForm ==
    /\ date \in Dates
    /\ persisted \in [Dates -> InitialDays \cup {CardioDay}]
    /\ workoutData = <<ServerGetDay(persisted, date)>>
    /\ notes = workoutData[1].notes
    /\ entries = LocalEntries(workoutData[1])
    /\ cardioEntries = LocalCardioEntries(workoutData[1])
    /\ notesRef = notes /\ entriesRef = entries
    /\ cardioEntriesRef = cardioEntries
    /\ strengthModal = ClosedStrengthModal
    /\ cardioModal = ClosedCardioModal
    /\ saves = <<>>
    /\ fetch = NoFetch
    /\ queries = [k \in QueryKeys |->
            IF k = QueryKey("getDayWorkout", date, 0, 0, 0)
               \/ k.endpoint \in {"getExercises", "getCardioTypes"}
            THEN [status |-> "fulfilled", subscribed |-> TRUE]
            ELSE Removed]
    /\ mutation = NoMutation
    /\ formField = "sets" /\ formText = <<>> /\ builtPayload = <<>>
    /\ CalendarIdle /\ ScreensIdle

FormNext ==
    \/ openAddStrengthModal
    \/ \E i \in 1..MaxEntries : openEditStrengthModal(i)
    \/ \E x \in PickerExercises : handleSelectExercise(x)
    \/ CancelStrengthModal
    \/ handleSaveStrength
    \/ DismissStrengthAlert
    \/ openAddCardioModal
    \/ \E i \in 1..MaxEntries : openEditCardioModal(i)
    \/ \E c \in PickerCardioTypes : handleSelectCardioType(c)
    \/ CancelCardioModal
    \/ handleSaveCardio
    \/ DismissCardioAlert

\* a form is open and has no selection
NoExerciseSelected ==
    strengthModal.visible /\ strengthModal.form.exercise_id = NullId

NoCardioTypeSelected ==
    cardioModal.visible /\ cardioModal.form.cardio_type_id = NullId

\* C12: while the open form has no selection no step sends a save request
\* or changes the local lists, and the submit that is refused leaves the
\* form open as it was (nothing is sent later on its behalf).
C12_SubmitWithoutSelectionRefused ==
    [][/\ (NoExerciseSelected \/ NoCardioTypeSelected)
          => /\ saves' = saves
             /\ entries' = entries /\ cardioEntries' = cardioEntries
       /\ (strengthModal'.alert /\ ~strengthModal.alert)
          => /\ NoExerciseSelected
             /\ strengthModal'.visible
             /\ strengthModal'.form = strengthModal.form
             /\ strengthModal'.mode = strengthModal.mode
       /\ (cardioModal'.alert /\ ~cardioModal.alert)
          => /\ NoCardioTypeSelected
             /\ cardioModal'.visible
             /\ cardioModal'.form = cardioModal.form
             /\ cardioModal'.mode = cardioModal.mode
       /\ Len(saves') > Len(saves)
          => /\ saves'[Len(saves')].handler = "strength"
                => strengthModal.form.exercise_id # NullId
             /\ saves'[Len(saves')].handler = "cardio"
                => cardioModal.form.cardio_type_id # NullId]_vars

\* the strength form was submitted without an exercise on a day with an
\* entry: the alert is up, the form open, no request sent
C12_Witness ==
    /\ strengthModal.visible /\ strengthModal.alert
    /\ strengthModal.form.exercise_id = NullId
    /\ saves = <<>>
    /\ Len(entries) = 1

----------------------------------------------------------------------------
(* Claims about what the day screen sends *)

\* C13: a step sends at most one save request, and a step in which the
\* server handles a request, a response arrives or a fetch moves on sends
\* none: after a rejection a save is sent only by the next user action.
C13_NoAutomaticRetry ==
    [][/\ Len(saves') \in {Len(saves), Len(saves) + 1}
       /\ \A i \in DOMAIN saves : saves'[i].payload = saves[i].payload
       /\ (\/ \E i \in DOMAIN saves : saves'[i].stage # saves[i].stage
           \/ fetch' # fetch
           \/ persisted' # persisted
           \/ queries' # queries)
          => Len(saves') = Len(saves)]_vars

\* a delete was rejected and everything has come to rest: the entry is back
\* in the list and no second request was sent
C13_Witness ==
    /\ Len(saves) = 1
    /\ saves[1].stage = "rejected"
    /\ saves[1].handler = "deleteStrength"
    /\ fetch.stage = "none"
    /\ Len(entries) = 1
    /\ Len(persisted[date].entries) = 1

\* this step is the response of a refused delete arriving: the handler
\* puts the list it held back
RollsBack(i) ==
    /\ i \in DOMAIN saves
    /\ saves[i].handler \in {"deleteStrength", "deleteCardio"}
    /\ saves[i].stage = "refused"
    /\ saves'[i].stage = "rejected"

\* the local lists after the step are the persisted day's
LocalIsPersistedAfter ==
    /\ entries' = LocalEntries(ServerGetDay(persisted', date))
    /\ cardioEntries' = LocalCardioEntries(ServerGetDay(persisted', date))

\* the list the handler held has only entries the server stores
HeldIsStorable(i) ==
    /\ \A j \in DOMAIN saves[i].heldEntries :
            saves[i].heldEntries[j].exercise_id \in OwnedExercises
    /\ \A j \in DOMAIN saves[i].heldCardio :
            saves[i].heldCardio[j].cardio_type_id \in OwnedCardioTypes

\* C24: when the save of a delete fails, the local lists are restored to the
\* persisted entries of the date, also when another save of the date was
\* started while the failing one was in flight
C24_RollbackRestoresPersisted ==
    [][\A i \in 1..MaxSaves :
          (RollsBack(i) /\ HeldIsStorable(i)) => LocalIsPersistedAfter]_vars

\* the same for a failing delete that was the only save in flight from its
\* start to its end
C24_RollbackAloneRestoresPersisted ==
    [][\A i \in 1..MaxSaves :
          (/\ RollsBack(i) /\ HeldIsStorable(i)
           /\ saves[i].pendingAtIssue = {}
           /\ \A j \in DOMAIN saves : i \notin saves[j].pendingAtIssue)
          => LocalIsPersistedAfter]_vars

\* the notes field holds text that no fetch delivered and no save has sent
UnsavedNotes ==
    /\ Loaded
    /\ notes # workoutData[1].notes
    /\ \A i \in DOMAIN saves : saves[i].payload.notes # notes

\* C27: notes text that was typed and not yet saved is not overwritten by a
\* refetch of the day that arrives while the field holds it
C27_RefetchKeepsTypedNotes ==
    [][(UnsavedNotes /\ FetchSettles) => notes' = notes]_vars

\* a refetch that brings the day the screen already holds leaves typed notes
C27_EqualRefetchKeepsTypedNotes ==
    [][(UnsavedNotes /\ FetchSettles /\ workoutData = <<fetch.data>>)
            => notes' = notes]_vars

\* typed, unsaved notes are on screen while a refetch has its response
C27_TypedUnderRefetch ==
    /\ UnsavedNotes
    /\ fetch.stage = "responded"
    /\ workoutData # <<fetch.data>>

----------------------------------------------------------------------------
(* The calendar under the day screen: the month query and its refetch *)

\* an element of a JSON list: a string, or an object with a date property
JsonString(s) == [type |-> "string", s |-> s]
JsonDated(s) == [type |-> "object", s |-> s]

\* a month index that lists every day that was saved with notes as well
ServerGetMonthListingNotes(store, year, month) ==
    [days_with_workouts |->
        {JsonString(d) : d \in {d \in DOMAIN store :
            /\ YearOf(d) = year /\ MonthOf(d) = month
            /\ (store[d].entries # <<>> \/ store[d].cardio_entries # <<>>
                \/ store[d].notes # "")}}]

\* GET /workouts/month/?year=&month=: the dates of the month whose day
\* holds a strength entry or a cardio entry
ServerGetMonth(store, year, month) ==
    [days_with_workouts |->
        {JsonString(d) : d \in {d \in DOMAIN store :
            /\ YearOf(d) = year /\ MonthOf(d) = month
            /\ (store[d].entries # <<>> \/ store[d].cardio_entries # <<>>)}}]

\* useGetMonthWorkoutsQuery({year: selectedYear, month: selectedMonth}) of
\* the calendar the day was opened from
CalendarKey == MonthKey(YearOf(date), MonthOf(date))

\* hasPendingRequests: a query or a mutation is under way
HasPendingRequests(q, s) ==
    \/ \E k \in DOMAIN q : q[k].status \in {"pending", "refetching"}
    \/ \E i \in 1..Len(s) : s[i].stage \in {"sent", "applied", "refused"}

\* invalidation waits while the behaviour is 'delayed' and a request is
\* under way
Deferred(q, s) ==
    invalidationBehavior = "delayed" /\ HasPendingRequests(q, s)

\* a request has completed, leaving cache q, calls s and requests f (day)
\* and mf (month), and invalidating newTags: the tags due are invalidated
\* and every subscribed entry they hit is fetched again
RequestCompleted(q, s, f, mf, newTags) ==
    LET due == IF Deferred(q, s) THEN {}
               ELSE pendingTagInvalidations \cup newTags
        after == Invalidate(q, due)
        Restarted(k) == q[k].status = "fulfilled" /\ after[k].status = "refetching"
    IN  /\ queries' = after
        /\ pendingTagInvalidations' =
                IF Deferred(q, s) THEN pendingTagInvalidations \cup newTags
                ELSE {}
        /\ fetch' = IF Restarted(DayKey(date))
                    THEN [stage |-> "sent", data |-> EmptyDay] ELSE f
        /\ monthFetch' = IF Restarted(CalendarKey)
                         THEN [stage |-> "sent", data |-> {}] ELSE mf

\* the response of save call i arrives while the calendar is mounted
SaveSettlesUnderCalendar(i) ==
    /\ i \in 1..Len(saves)
    /\ saves[i].stage \in {"applied", "refused"}
    /\ LET ok == saves[i].stage = "applied"
           h == saves[i].handler
       IN  /\ saves' = [saves EXCEPT
                        ![i].stage = IF ok THEN "fulfilled" ELSE "rejected",
                        ![i].heldEntries = <<>>,
                        ![i].heldCardio = <<>>]
           /\ RequestCompleted(queries, saves', fetch, monthFetch,
                               SaveInvalidatesTags(saves[i].payload.date))
           /\ entries' = IF h = "deleteStrength" /\ ~ok
                         THEN saves[i].heldEntries ELSE entries
           /\ entriesRef' = entries'
    /\ UNCHANGED <<date, notes, notesRef, cardioEntries, cardioEntriesRef,
                   modalVars, workoutData, persisted, mutation, payloadVars,
                   invalidationBehavior, monthData, screenVars>>

\* the response of the day fetch arrives while the calendar is mounted
FetchSettlesUnderCalendar ==
    /\ fetch.stage = "responded"
    /\ RequestCompleted([queries EXCEPT ![DayKey(date)].status = "fulfilled"],
                        saves, NoFetch, monthFetch, {})
    /\ workoutData' = <<fetch.data>>
    /\ IF workoutData # <<fetch.data>>
       THEN /\ notes' = fetch.data.notes
            /\ entries' = LocalEntries(fetch.data)
            /\ cardioEntries' = LocalCardioEntries(fetch.data)
            /\ notesRef' = notes'
            /\ entriesRef' = entries'
            /\ cardioEntriesRef' = cardioEntries'
       ELSE UNCHANGED localVars
    /\ UNCHANGED <<date, modalVars, saves, persisted, mutation, payloadVars,
                   invalidationBehavior, monthData, screenVars>>

\* the server answers the month fetch
ServerMonthFetch ==
    /\ monthFetch.stage = "sent"
    /\ monthFetch' = [stage |-> "responded",
                      data |-> ServerGetMonth(persisted, YearOf(date),
                                              MonthOf(date)).days_with_workouts]
    /\ UNCHANGED <<cacheVars, dayVars, payloadVars, invalidationBehavior,
                   pendingTagInvalidations, monthData, screenVars>>

\* the response of the month fetch arrives
MonthFetchSettles ==
    /\ monthFetch.stage = "responded"
    /\ RequestCompleted([queries EXCEPT ![CalendarKey].status = "fulfilled"],
                        saves, fetch, NoMonthFetch, {})
    /\ monthData' = <<[days_with_workouts |-> monthFetch.data]>>
    /\ UNCHANGED <<date, localVars, modalVars, workoutData, saves, persisted,
                   mutation, payloadVars, invalidationBehavior, screenVars>>

\* a day with one strength entry is open over the calendar of its month,
\* both queries loaded; the build's invalidation behaviour is either one
InitMonth ==
    /\ date = Date1
    /\ persisted \in [Dates -> InitialDays]
    /\ Len(persisted[date].entries) = 1
    /\ workoutData = <<ServerGetDay(persisted, date)>>
    /\ notes = workoutData[1].notes
    /\ entries = LocalEntries(workoutData[1])
    /\ cardioEntries = LocalCardioEntries(workoutData[1])
    /\ notesRef = notes /\ entriesRef = entries
    /\ cardioEntriesRef = cardioEntries
    /\ strengthModal = ClosedStrengthModal
    /\ cardioModal = ClosedCardioModal
    /\ saves = <<>>
    /\ fetch = NoFetch
    /\ queries = [k \in QueryKeys |->
            IF k \in {DayKey(date), CalendarKey}
               \/ k.endpoint \in {"getExercises", "getCardioTypes"}
            THEN [status |-> "fulfilled", subscribed |-> TRUE]
            ELSE Removed]
    /\ mutation = NoMutation
    /\ formField = "sets" /\ formText = <<>> /\ builtPayload = <<>>
    /\ invalidationBehavior \in {"immediately", "delayed"}
    /\ pendingTagInvalidations = {}
    /\ monthFetch = NoMonthFetch
    /\ monthData = <<ServerGetMonth(persisted, YearOf(date), MonthOf(date))>>
    /\ ScreensIdle

MonthNext ==
    \/ handleSaveNotes
    \/ \E i \in 1..MaxEntries : handleDeleteStrength(i)
    \/ \E i \in 1..MaxSaves : ServerSave(i)
    \/ \E i \in 1..MaxSaves : ServerSaveFails(i)
    \/ \E i \in 1..MaxSaves : SaveSettlesUnderCalendar(i)
    \/ ServerFetch
    \/ FetchSettlesUnderCalendar
    \/ ServerMonthFetch
    \/ MonthFetchSettles

\* nothing is under way
AtRest ==
    /\ Unresolved = {}
    /\ fetch.stage = "none" /\ monthFetch.stage = "none"
    /\ pendingTagInvalidations = {}

\* the save made last deleted the day's only entry and succeeded
LastEntryDeleted ==
    /\ saves # <<>>
    /\ saves[Len(saves)].handler = "deleteStrength"
    /\ saves[Len(saves)].stage = "fulfilled"
    /\ saves[Len(saves)].payload.entries = <<>>
    /\ saves[Len(saves)].payload.cardio_entries = <<>>
    /\ ServerGetDay(persisted, date).entries = <<>>

\* C14: once the day's only entry is deleted by a save that succeeded, the
\* month summary the calendar shows when every request has been answered
\* does not hold the day's date
C14_DeletedDayLeavesMonth ==
    (AtRest /\ LastEntryDeleted /\ monthData # <<>>)
        => JsonString(date) \notin monthData[1].days_with_workouts

\* the same where invalidation is delayed until no request is under way
C14_DeletedDayLeavesMonthDelayed ==
    invalidationBehavior = "delayed" => C14_DeletedDayLeavesMonth

C14_Reached ==
    AtRest /\ LastEntryDeleted /\ monthData # <<>>
    /\ JsonString(date) \notin monthData[1].days_with_workouts

----------------------------------------------------------------------------
(* Claims about the month index *)

Months == 1..12

\* C15: a date is in the days_with_workouts of a month exactly when it lies
\* in that month and its stored day has a strength entry or a cardio entry;
\* and whenever the server stores a payload, the payload's date is listed
\* afterwards exactly when the payload brings an entry that is kept, so a
\* day saved with notes only is not listed, whatever was saved before.
C15_MonthIndexIffEntries ==
    /\ [](\A d \in Dates : \A m \in Months :
            JsonString(d) \in ServerGetMonth(persisted, YearOf(d), m).days_with_workouts
            <=> /\ MonthOf(d) = m
                /\ (ServerGetDay(persisted, d).entries # <<>>
                    \/ ServerGetDay(persisted, d).cardio_entries # <<>>))
    /\ [][\A i \in DOMAIN saves : ServerApplies(i) =>
            LET p == saves[i].payload
            IN  JsonString(p.date) \in ServerGetMonth(persisted', YearOf(p.date),
                                          MonthOf(p.date)).days_with_workouts
                <=> (ResolvableEntries(p.entries) # <<>>
                     \/ ResolvableCardio(p.cardio_entries) # <<>>)]_vars

\* a payload with notes and no entries was stored: its day holds the notes
\* and is not listed, while the other date's day is
C15_Witness ==
    \E i \in DOMAIN saves :
        LET p == saves[i].payload
        IN  /\ saves[i].stage = "applied"
            /\ p.notes # "" /\ p.entries = <<>> /\ p.cardio_entries = <<>>
            /\ ServerGetDay(persisted, p.date).notes = p.notes
            /\ JsonString(p.date) \notin ServerGetMonth(persisted, YearOf(p.date),
                                            MonthOf(p.date)).days_with_workouts
            /\ \E d \in Dates \ {p.date} :
                  JsonString(d) \in ServerGetMonth(persisted, YearOf(d),
                                       MonthOf(d)).days_with_workouts

----------------------------------------------------------------------------
(* Dates: the JavaScript Date of a local calendar day *)

\* days from 0000-03-01 to a day of the proleptic Gregorian calendar
DaysFromCivil(y, m, d) ==
    LET yy == IF m <= 2 THEN y - 1 ELSE y
        era == yy \div 400
        yoe == yy - era * 400
        mp == IF m > 2 THEN m - 3 ELSE m + 9
        doy == (153 * mp + 2) \div 5 + d - 1
    IN  era * 146097 + yoe * 365 + yoe \div 4 - yoe \div 100 + doy

\* the calendar day that many days after 0000-03-01
CivilFromDays(z) ==
    LET era == z \div 146097
        doe == z - era * 146097
        yoe == (doe - doe \div 1460 + doe \div 36524 - doe \div 146096) \div 365
        doy == doe - (365 * yoe + yoe \div 4 - yoe \div 100)
        mp == (5 * doy + 2) \div 153
        m == IF mp < 10 THEN mp + 3 ELSE mp - 9
    IN  [year |-> yoe + era * 400 + (IF m <= 2 THEN 1 ELSE 0),
         month |-> m,
         day |-> doy - (153 * mp + 2) \div 5 + 1]

\* time zones a machine may be set to: minutes east of UTC, and by how much
\* the zone's clocks skip forward at the local midnight asked for (nothing,
\* a daylight-saving hour, or a whole day as when a zone crosses the date
\* line)
TimeZones ==
    [offset : {-720, -300, 0, 330, 840}, skipped : {0, 60, 1440}]

NullDate == [kind |-> "null", time |-> 0]
InvalidDate == [kind |-> "invalid", time |-> 0]

\* new Date(isoDateOnlyString): midnight UTC of the day
NewDateUTC(year, monthIndex, day) ==
    LET ym == year * 12 + monthIndex
    IN  [kind |-> "date",
         time |-> (DaysFromCivil(ym \div 12, (ym % 12) + 1, 1) + day - 1)
                  * 1440]

\* new Date(year, monthIndex, day): local midnight of the day; a year of 0
\* to 99 stands for 1900 + year, month and day overflow into the next
\* months, and a local time the zone skips is moved past the gap
NewDate(year, monthIndex, day) ==
    LET fullYear == IF year \in 0..99 THEN 1900 + year ELSE year
        ym == fullYear * 12 + monthIndex
    IN  [kind |-> "date",
         time |-> (DaysFromCivil(ym \div 12, (ym % 12) + 1, 1) + day - 1)
                  * 1440 + timeZone.skipped - timeZone.offset]

\* getFullYear(), getMonth() + 1 and getDate() of a Date
LocalDay(d) == CivilFromDays((d.time + timeZone.offset) \div 1440)

\* the three numbers of dateStr.split('-').map(Number)
DateParts(s) ==
    LET parts == Split(s, "-")
    IN  [i \in 1..3 |-> IF i <= Len(parts) THEN Number(parts[i]) ELSE NaN]

\* a parse that hands the string to the Date constructor
parseLocalDateFromString(s) ==
    IF s = <<>> THEN NullDate
    ELSE LET n == DateParts(s)
         IN  IF \E i \in 1..3 : ~IsWhole(n[i]) THEN InvalidDate
             ELSE NewDateUTC(IntOf(n[1]), IntOf(n[2]) - 1, IntOf(n[3]))

\* parseLocalDate(dateStr)
parseLocalDate(s) ==
    IF s = <<>> THEN NullDate
    ELSE LET n == DateParts(s)
         IN  IF \E i \in 1..3 : ~IsWhole(n[i]) THEN InvalidDate
             ELSE NewDate(IntOf(n[1]), IntOf(n[2]) - 1, IntOf(n[3]))

\* String(n).padStart(width, '0')
RECURSIVE PadStart(_, _)
PadStart(s, width) ==
    IF Len(s) >= width THEN s ELSE PadStart(<<"0">> \o s, width)

IsLeapYear(y) == y % 4 = 0 /\ (y % 100 # 0 \/ y % 400 = 0)

DaysInMonth(y, m) ==
    IF m = 2 THEN (IF IsLeapYear(y) THEN 29 ELSE 28)
    ELSE IF m \in {4, 6, 9, 11} THEN 30 ELSE 31

\* years of the strings parsed: the app's years, a leap year and a year
\* below 100
ParsedYears == {99, 2024, 2025, 2026}

\* "YYYY-MM-DD" of a calendar day
DateString(y, m, d) ==
    PadStart(NatToStr(y), 4) \o <<"-">> \o PadStart(NatToStr(m), 2)
        \o <<"-">> \o PadStart(NatToStr(d), 2)

\* the well-formed date strings of those years
WellFormedDates ==
    {DateString(t[1], t[2], t[3]) :
        t \in {u \in ParsedYears \X (1..12) \X (1..31) :
                  u[3] <= DaysInMonth(u[1], u[2])}}

\* a date string is about to be parsed on a machine in some time zone
InitDates ==
    /\ dateString \in WellFormedDates
    /\ timeZone \in TimeZones
    /\ localDate = <<>>
    /\ DayIdle /\ PayloadIdle /\ CalendarIdle /\ AnalyticsIdle /\ UiIdle
    /\ AuthIdle /\ CustomersIdle
    /\ queries = NoQueries /\ mutation = NoMutation

\* formatLocalDateLabel(dateStr), chartData: the string is parsed
CallParseLocalDate ==
    /\ localDate = <<>>
    /\ localDate' = <<parseLocalDate(dateString)>>
    /\ UNCHANGED <<cacheVars, dayVars, payloadVars, calendarVars, timeZone,
                   dateString, analyticsVars, uiVars,
                   authVars, customerVars>>

\* the string is put aside
ForgetLocalDate ==
    /\ localDate # <<>>
    /\ localDate' = <<>>
    /\ UNCHANGED <<cacheVars, dayVars, payloadVars, calendarVars, timeZone,
                   dateString, analyticsVars, uiVars,
                   authVars, customerVars>>

DatesNext == CallParseLocalDate \/ ForgetLocalDate

\* year, month and day as written in a "YYYY-MM-DD" string
WrittenDay(s) ==
    [year |-> DigitsValue(SubSeq(s, 1, 4)),
     month |-> DigitsValue(SubSeq(s, 6, 7)),
     day |-> DigitsValue(SubSeq(s, 9, 10))]

\* C17 as stated: the Date parseLocalDate returns for a well-formed string
\* shows, in the machine's time zone, the year, month and day written in
\* the string
C17_ParsedDayIsWrittenDay ==
    localDate # <<>> =>
        /\ localDate[1].kind = "date"
        /\ LocalDay(localDate[1]) = WrittenDay(dateString)

\* C17 amended: the same for a string whose year is 0100 or later, on a
\* machine whose zone does not skip that whole local day
C17_ParsedDayIsWrittenDayFrom100 ==
    (/\ localDate # <<>>
     /\ WrittenDay(dateString).year >= 100
     /\ timeZone.skipped < 1440) =>
        /\ localDate[1].kind = "date"
        /\ LocalDay(localDate[1]) = WrittenDay(dateString)

\* the last day of January was parsed west of UTC, and the last day of a
\* leap February on a machine whose clocks skip the hour after midnight
C17_Witness ==
    /\ localDate # <<>>
    /\ WrittenDay(dateString) = [year |-> 2024, month |-> 2, day |-> 29]
    /\ timeZone = [offset |-> -300, skipped |-> 60]
    /\ LocalDay(localDate[1]) = [year |-> 2024, month |-> 2, day |-> 29]

----------------------------------------------------------------------------
(* AnalyticsScreen: the exercise history and its chart *)

\* strength entries a stored day holds at most in the history check
MaxLogged == 2

\* the days of 0000-03-01 to the day a "YYYY-MM-DD" string names
DayNumber(s) ==
    DaysFromCivil(WrittenDay(s).year, WrittenDay(s).month, WrittenDay(s).day)

\* sets * reps * weight of stored entries, summed (as a multiple of 1/Scale)
RECURSIVE TotalVolume(_)
TotalVolume(es) ==
    IF es = <<>> THEN 0
    ELSE IntOf(es[1].sets) * IntOf(es[1].reps) * parseFloat(es[1].weight).v
         + TotalVolume(Tail(es))

\* sets * reps of stored entries, summed
RECURSIVE TotalReps(_)
TotalReps(es) ==
    IF es = <<>> THEN 0
    ELSE IntOf(es[1].sets) * IntOf(es[1].reps) + TotalReps(Tail(es))

\* GET /analytics/exercise-history/?exercise_id=: one point per date the
\* exercise is logged on, dates ascending, the date's entries summed
ExerciseHistory(store, x) ==
    LET logged == {d \in DOMAIN store :
                      \E i \in 1..Len(store[d].entries) :
                          store[d].entries[i].exercise_id = x}
        dates == CHOOSE s \in [1..Cardinality(logged) -> logged] :
                     \A i, j \in DOMAIN s : i < j => DayNumber(s[i]) < DayNumber(s[j])
    IN  [exercise |-> x,
         points |->
            [k \in 1..Len(dates) |->
                LET es == SelectSeq(store[dates[k]].entries,
                                    LAMBDA e : e.exercise_id = x)
                IN  [date |-> dates[k],
                     total_volume |-> Num(TotalVolume(es)),
                     total_reps |-> JsInt(TotalReps(es)),
                     avg_weight_per_rep |->
                        IF TotalReps(es) > 0
                        THEN Num(TotalVolume(es) \div TotalReps(es))
                        ELSE Num(0)]]]

\* a chart that leaves out the points without weight
ChartDataWithoutZero(hd) ==
    IF hd = <<>> THEN <<>>
    ELSE LET kept == SelectSeq(hd[1].points,
                               LAMBDA p : OrElse(p.avg_weight_per_rep, Num(0)) # Num(0))
         IN  [k \in 1..Len(kept) |->
                [x |-> parseLocalDate(kept[k].date),
                 y |-> kept[k].avg_weight_per_rep]]

\* chartData: historyData.points.map(p => ({x: parseLocalDate(p.date),
\* y: Number(p.avg_weight_per_rep || 0)})), [] without history
ChartData(hd) ==
    IF hd = <<>> THEN <<>>
    ELSE [k \in 1..Len(hd[1].points) |->
            [x |-> parseLocalDate(hd[1].points[k].date),
             y |-> OrElse(hd[1].points[k].avg_weight_per_rep, Num(0))]]

\* entries of the owner's exercise as saveWorkout sends them
LoggedEntries ==
    {StrengthPayload([exercise_id |-> 1, sets |-> <<"3">>,
                      reps |-> <<"1", "0">>, weight |-> <<"5", "0">>]),
     StrengthPayload([exercise_id |-> 1, sets |-> <<"2">>,
                      reps |-> <<"8">>, weight |-> <<"6", "0">>]),
     StrengthPayload([exercise_id |-> 1, sets |-> <<"3">>,
                      reps |-> <<"1", "0">>, weight |-> <<"0">>])}

LoggedDays ==
    {[notes |-> "", entries |-> es, cardio_entries |-> <<>>] :
        es \in UNION {[1..n -> LoggedEntries] : n \in 0..MaxLogged}}

\* the analytics screen is opened over stored days, on a machine in some
\* time zone
InitHistory ==
    /\ persisted \in [Dates -> LoggedDays]
    /\ timeZone \in TimeZones
    /\ AnalyticsIdle /\ UiIdle /\ AuthIdle /\ CustomersIdle
    /\ dateString = <<>> /\ localDate = <<>>
    /\ date = DefaultDate
    /\ notes = "" /\ entries = <<>> /\ cardioEntries = <<>>
    /\ notesRef = "" /\ entriesRef = <<>> /\ cardioEntriesRef = <<>>
    /\ strengthModal = ClosedStrengthModal
    /\ cardioModal = ClosedCardioModal
    /\ workoutData = <<>>
    /\ saves = <<>>
    /\ fetch = NoFetch
    /\ PayloadIdle /\ CalendarIdle
    /\ queries = NoQueries /\ mutation = NoMutation

\* handleExerciseSelect(exercise): the chart keeps what it shows until the
\* history of the exercise arrives
handleExerciseSelect(x) ==
    /\ selectedExerciseId # x
    /\ selectedExerciseId' = x
    /\ UNCHANGED <<cacheVars, dayVars, payloadVars, calendarVars, timeZone,
                   dateString, localDate, historyData, chartData, uiVars,
                   authVars, customerVars>>

\* the history of the selected exercise arrives and the chart is made of it
HistoryArrives ==
    /\ selectedExerciseId # NullId
    /\ IF historyData = <<>> THEN TRUE
       ELSE historyData[1].exercise # selectedExerciseId
    /\ historyData' = <<ExerciseHistory(persisted, selectedExerciseId)>>
    /\ chartData' = ChartData(historyData')
    /\ UNCHANGED <<cacheVars, dayVars, payloadVars, calendarVars, timeZone,
                   dateString, localDate, selectedExerciseId, uiVars,
                   authVars, customerVars>>

HistoryNext ==
    \/ \E x \in PickerExercises : handleExerciseSelect(x)
    \/ HistoryArrives

\* the stored entries of exercise x on date d
EntriesOn(d, x) ==
    SelectSeq(ServerGetDay(persisted, d).entries, LAMBDA e : e.exercise_id = x)

\* C16: the history shown has one point for each date the exercise has an
\* entry on and no other, dates strictly ascending; a point's total_volume
\* and total_reps are the sums of sets*reps*weight and sets*reps over the
\* exercise's entries of that date, its avg_weight_per_rep their quotient
\* (0 without reps); and the chart has one point per history point, in that
\* order, its y the point's average and its x days ascending likewise.
C16_HistoryOnePointPerDate ==
    historyData # <<>> =>
        LET x == historyData[1].exercise
            ps == historyData[1].points
        IN  /\ {ps[k].date : k \in DOMAIN ps} = {d \in Dates : EntriesOn(d, x) # <<>>}
            /\ \A i, j \in DOMAIN ps :
                  i < j => DayNumber(ps[i].date) < DayNumber(ps[j].date)
            /\ \A k \in DOMAIN ps :
                  LET es == EntriesOn(ps[k].date, x)
                  IN  /\ ps[k].total_volume = Num(TotalVolume(es))
                      /\ ps[k].total_reps = JsInt(TotalReps(es))
                      /\ ps[k].total_reps.v > 0 =>
                            ps[k].avg_weight_per_rep.v * IntOf(ps[k].total_reps)
                                <= ps[k].total_volume.v
                            /\ (ps[k].avg_weight_per_rep.v + 1) * IntOf(ps[k].total_reps)
                                > ps[k].total_volume.v
                      /\ ps[k].total_reps.v = 0 => ps[k].avg_weight_per_rep = Num(0)
            /\ Len(chartData) = Len(ps)
            /\ \A k \in DOMAIN ps :
                  /\ chartData[k].y = ps[k].avg_weight_per_rep
                  /\ chartData[k].x.kind = "date"
            /\ \A i, j \in DOMAIN ps :
                  i < j => chartData[i].x.time < chartData[j].x.time

\* the exercise is logged twice on the first date and once, without weight,
\* on the second: two points, the first with the sums 2460 and 46, the
\* second with average 0, and two chart points
C16_Witness ==
    /\ historyData # <<>>
    /\ Len(historyData[1].points) = 2
    /\ Len(EntriesOn(Date1, 1)) = 2
    /\ historyData[1].points[1].total_volume = Num(2460 * Scale)
    /\ historyData[1].points[1].total_reps = JsInt(46)
    /\ historyData[1].points[2].avg_weight_per_rep = Num(0)
    /\ Len(chartData) = 2
    /\ chartData[2].y = Num(0)

----------------------------------------------------------------------------
(* CalendarScreen: the grid of the selected month *)

\* workoutDatesSet: new Set(data.days_with_workouts.map(d => d.date)),
\* empty without data
WorkoutDatesSet(data) ==
    IF data = <<>> THEN {}
    ELSE {IF e.type = "object" THEN e.s ELSE Undefined :
            e \in data[1].days_with_workouts}

\* `${selectedYear}-${String(selectedMonth).padStart(2, '0')}-${String(day).padStart(2, '0')}`
CellDateStr(year, month, day) ==
    NatToStr(year) \o <<"-">> \o PadStart(NatToStr(month), 2)
        \o <<"-">> \o PadStart(NatToStr(day), 2)

\* getDay() of a Date: 0 is Sunday (0000-03-01 is a Wednesday)
GetDay(d) ==
    (DaysFromCivil(LocalDay(d).year, LocalDay(d).month, LocalDay(d).day) + 3) % 7

\* calendarCells: the blanks before the first day, then a cell per day
CalendarCells(year, month, data) ==
    LET firstDayOfMonth == GetDay(NewDate(year, month - 1, 1))
        daysInMonth == LocalDay(NewDate(year, month, 0)).day
    IN  [i \in 1..firstDayOfMonth |->
            [type |-> "blank", day |-> 0, dateStr |-> <<>>, hasWorkout |-> FALSE]]
        \o [day \in 1..daysInMonth |->
            [type |-> "day", day |-> day,
             dateStr |-> CellDateStr(year, month, day),
             hasWorkout |-> CellDateStr(year, month, day) \in WorkoutDatesSet(data)]]

\* the years the year dropdown offers
CalendarYears == {2025, 2026}

\* month summaries as a response may bring them: the first and the last day
\* of the month or neither, each element a date string or an object with
\* the date
MonthSummaries(year, month) ==
    LET first == DateString(year, month, 1)
        last == DateString(year, month, DaysInMonth(year, month))
    IN  {[days_with_workouts |-> {JsonString(d) : d \in S}] :
            S \in SUBSET {first, last}}
        \cup {[days_with_workouts |-> {JsonDated(d) : d \in S}] :
                S \in SUBSET {first, last}}

\* the calendar is mounted on a month whose summary has arrived, on a
\* machine whose zone skips no day of these years
InitCalendar ==
    /\ selectedYear \in CalendarYears
    /\ selectedMonth \in Months
    /\ timeZone \in {z \in TimeZones : z.skipped < 1440}
    /\ monthData \in {<<m>> : m \in MonthSummaries(selectedYear, selectedMonth)}
    /\ calendarCells = <<>>
    /\ invalidationBehavior = "immediately"
    /\ pendingTagInvalidations = {}
    /\ monthFetch = NoMonthFetch
    /\ dateString = <<>> /\ localDate = <<>>
    /\ AnalyticsIdle /\ AuthIdle /\ CustomersIdle
    /\ DayIdle /\ PayloadIdle
    /\ queries = NoQueries /\ mutation = NoMutation

\* the screen renders: useMemo makes the cells
RenderCalendar ==
    /\ calendarCells = <<>>
    /\ calendarCells' = CalendarCells(selectedYear, selectedMonth, monthData)
    /\ UNCHANGED <<cacheVars, dayVars, payloadVars, calendarVars, timeZone,
                   dateString, localDate, analyticsVars, selectedYear,
                   selectedMonth,
                   authVars, customerVars>>

\* handleMonthSelect(month): the cells are made anew; the summary shown
\* stays until the one of the new month arrives
handleMonthSelect(month) ==
    /\ calendarCells # <<>>
    /\ month # selectedMonth
    /\ selectedMonth' = month
    /\ calendarCells' = CalendarCells(selectedYear, month, monthData)
    /\ UNCHANGED <<cacheVars, dayVars, payloadVars, calendarVars, timeZone,
                   dateString, localDate, analyticsVars, selectedYear,
                   authVars, customerVars>>

CalendarNext ==
    \/ RenderCalendar
    \/ \E month \in Months : handleMonthSelect(month)

\* the day cells of the grid
DayCells == {i \in DOMAIN calendarCells : calendarCells[i].type = "day"}

\* C18: where every element of days_with_workouts is a date string, a day
\* cell is marked exactly when its date string is one of them
C18_CellMarkedIffListed ==
    (/\ calendarCells # <<>>
     /\ \A e \in monthData[1].days_with_workouts : e.type = "string") =>
        \A i \in DayCells :
            calendarCells[i].hasWorkout
            <=> JsonString(calendarCells[i].dateStr)
                    \in monthData[1].days_with_workouts

\* where every element is an object with the date, a day cell is marked
\* exactly when its date string is the date of one of them
C18_CellMarkedIffDated ==
    (/\ calendarCells # <<>>
     /\ \A e \in monthData[1].days_with_workouts : e.type = "object") =>
        \A i \in DayCells :
            calendarCells[i].hasWorkout
            <=> JsonDated(calendarCells[i].dateStr)
                    \in monthData[1].days_with_workouts

\* the grid has a cell for each day of the month, after the blanks
C18_GridShape ==
    calendarCells # <<>> =>
        /\ Cardinality(DayCells) = DaysInMonth(selectedYear, selectedMonth)
        /\ \A i \in DayCells :
              calendarCells[i].dateStr
                  = DateString(selectedYear, selectedMonth, calendarCells[i].day)

----------------------------------------------------------------------------
(* Authentication: the token of the auth slice and the Authorization       *)
(* header of the requests (store/index.js baseQuery, api/config.js auth    *)
(* slice, RootNavigator)                                                   *)

\* !!x: null, undefined and the empty string are falsy
ToBoolean(x) == x \notin {Null, Undefined, <<>>}

\* a || b
LogicalOr(a, b) == IF ToBoolean(a) THEN a ELSE b

\* prepareHeaders: the header is set from the token in the state when the
\* request is made, and left out when there is none
prepareHeaders(t) == IF ToBoolean(t) THEN <<"Bearer", t>> ELSE <<>>

\* a request as the server receives it
Request(endpoint, t) ==
    [endpoint |-> endpoint, authorization |-> prepareHeaders(t)]

AuthEndpoints == {"login", "register"}

\* authSlice
initialState ==
    [token |-> Null, refreshToken |-> Null, user |-> Null,
     status |-> "idle", error |-> Null]

AuthState ==
    [token |-> token, refreshToken |-> refreshToken, user |-> user,
     status |-> status, error |-> error]

setCredentials(state, payload) ==
    [token |-> payload.token,
     refreshToken |-> LogicalOr(payload.refreshToken, Null),
     user |-> payload.user,
     status |-> "succeeded",
     error |-> Null]

\* a logout that leaves the error of a failed attempt in the state
logoutKeepingError(state) ==
    [state EXCEPT !.token = Null, !.refreshToken = Null, !.user = Null,
                  !.status = "idle"]

logout(state) ==
    [token |-> Null, refreshToken |-> Null, user |-> Null,
     status |-> "idle", error |-> Null]

setLoading(state) == [state EXCEPT !.status = "loading", !.error = Null]

setError(state, payload) ==
    [state EXCEPT !.status = "failed", !.error = payload]

selectIsAuthenticated(state) == ToBoolean(state.token)

\* RootNavigator: MainNavigator when authenticated, AuthNavigator otherwise
RootNavigator(state) ==
    IF selectIsAuthenticated(state) THEN "MainNavigator" ELSE "AuthNavigator"

\* an action of the slice is dispatched: the slice becomes next and
\* RootNavigator, which selects from it, is rendered anew
Dispatch(next) ==
    /\ token' = next.token
    /\ refreshToken' = next.refreshToken
    /\ user' = next.user
    /\ status' = next.status
    /\ error' = next.error
    /\ navigator' = RootNavigator(next)

sliceVars == <<token, refreshToken, user, status, error, navigator>>

\* what the login endpoint answers for the two accounts: the second
\* answer carries no refresh token
LoginResults ==
    {[access |-> <<"a">>, refresh |-> <<"r">>, username |-> <<"a", "n", "n">>],
     [access |-> <<"b">>, refresh |-> Undefined, username |-> <<"b", "o", "b">>]}

\* the error payloads given to setError
ErrorPayloads == {<<"e">>}

\* the queries of the screens under MainNavigator that are followed here
ScreenQueryKeys == {DayKey(Date1), MonthKey(2025, 1), ExercisesKey}

\* the mutations of those screens
ScreenMutationArgs ==
    {MutationArg("saveDayWorkout", Date1), MutationArg("createExercise", <<>>)}

MutationPending(m) == m.status = "pending"

\* the cache keys that go from fulfilled in q to refetching in after
Refetched(q, after) ==
    {k \in DOMAIN q : /\ q[k].status = "fulfilled"
                      /\ after[k].status = "refetching"}

\* a request has completed, leaving cache q and mutation m, and
\* invalidating newTags: the tags due are invalidated, and every subscribed
\* entry they hit is requested again with the token t of that moment
AuthRequestCompleted(q, m, newTags, t) ==
    LET deferred == /\ invalidationBehavior = "delayed"
                    /\ (HasPendingRequests(q, <<>>) \/ MutationPending(m))
        due == IF deferred THEN {} ELSE pendingTagInvalidations \cup newTags
        after == Invalidate(q, due)
    IN  /\ queries' = after
        /\ pendingTagInvalidations' =
                IF deferred THEN pendingTagInvalidations \cup newTags ELSE {}
        /\ sent' = {Request(k.endpoint, t) : k \in Refetched(q, after)}
        /\ fetchedWith' = [k \in DOMAIN fetchedWith |->
                IF k \in Refetched(q, after) THEN t ELSE fetchedWith[k]]

InitAuth ==
    /\ token = initialState.token
    /\ refreshToken = initialState.refreshToken
    /\ user = initialState.user
    /\ status = initialState.status
    /\ error = initialState.error
    /\ navigator = RootNavigator(initialState)
    /\ sent = {}
    /\ queries = [k \in ScreenQueryKeys |-> Removed]
    /\ fetchedWith = [k \in ScreenQueryKeys |-> Null]
    /\ mutation = NoMutation
    /\ invalidationBehavior \in {"immediately", "delayed"}
    /\ pendingTagInvalidations = {}
    /\ monthFetch = NoMonthFetch /\ monthData = <<>>
    /\ DayIdle /\ PayloadIdle
    /\ timeZone = [offset |-> 0, skipped |-> 0]
    /\ dateString = <<>> /\ localDate = <<>>
    /\ AnalyticsIdle /\ UiIdle /\ CustomersIdle

\* LoginScreen.handleSignIn: the login mutation is sent; the screen is
\* under AuthNavigator
handleSignIn ==
    /\ navigator = "AuthNavigator"
    /\ ~MutationPending(mutation)
    /\ mutation' = [status |-> "pending", arg |-> MutationArg("login", <<>>)]
    /\ sent' = {Request("login", token)}
    /\ UNCHANGED <<queries, fetchedWith, sliceVars, dayVars, payloadVars,
                   calendarVars, timeZone, dateString, localDate,
                   analyticsVars, uiVars, customerVars>>

\* the login response arrives; on success handleSignIn dispatches
\* setCredentials with the tokens of the response and the name entered
LoginSettles(outcome, result) ==
    /\ MutationPending(mutation)
    /\ mutation.arg.endpoint = "login"
    /\ mutation' = [mutation EXCEPT !.status = outcome]
    /\ AuthRequestCompleted(queries, mutation', {}, token)
    /\ IF outcome = "fulfilled"
       THEN Dispatch(setCredentials(AuthState,
                [token |-> result.access, refreshToken |-> result.refresh,
                 user |-> result.username]))
       ELSE UNCHANGED sliceVars
    /\ UNCHANGED <<dayVars, payloadVars, invalidationBehavior, monthFetch,
                   monthData, timeZone, dateString, localDate, analyticsVars,
                   uiVars, customerVars>>

\* RootNavigator renders AuthNavigator in place of MainNavigator: every
\* screen under MainNavigator unmounts and its query hooks unsubscribe
\* a root that leaves the screens mounted
MainNavigatorKept(q) == q

MainNavigatorUnmounted(q) ==
    [k \in DOMAIN q |-> [q[k] EXCEPT !.subscribed = FALSE]]

\* the Logout button of the calendar's header dispatches logout: the slice
\* is cleared, selectIsAuthenticated turns false and the root is rendered
\* anew
LogoutPressed ==
    /\ navigator = "MainNavigator"
    /\ Dispatch(logout(AuthState))
    /\ queries' = MainNavigatorUnmounted(queries)
    /\ sent' = {}
    /\ UNCHANGED <<mutation, fetchedWith, dayVars, payloadVars, calendarVars,
                   timeZone, dateString, localDate, analyticsVars, uiVars, customerVars>>

\* a screen under MainNavigator mounts a query hook: a request is made
\* unless the cache has an entry for the key
ScreenMounts(k) ==
    /\ navigator = "MainNavigator"
    /\ ~queries[k].subscribed
    /\ queries' = [queries EXCEPT ![k] =
            [status |-> IF @.status = "uninitialized" THEN "pending" ELSE @.status,
             subscribed |-> TRUE]]
    /\ sent' = IF queries[k].status = "uninitialized"
               THEN {Request(k.endpoint, token)} ELSE {}
    /\ fetchedWith' = IF queries[k].status = "uninitialized"
                      THEN [fetchedWith EXCEPT ![k] = token] ELSE fetchedWith
    /\ UNCHANGED <<mutation, sliceVars, dayVars, payloadVars, calendarVars,
                   timeZone, dateString, localDate, analyticsVars, uiVars, customerVars>>

ScreenUnmounts(k) ==
    /\ queries[k].subscribed
    /\ queries' = [queries EXCEPT ![k].subscribed = FALSE]
    /\ sent' = {}
    /\ UNCHANGED <<mutation, fetchedWith, sliceVars, dayVars, payloadVars,
                   calendarVars, timeZone, dateString, localDate,
                   analyticsVars, uiVars, customerVars>>

\* keepUnusedDataFor ran out on an entry without subscribers
EntryExpires(k) ==
    /\ ~queries[k].subscribed
    /\ queries[k].status = "fulfilled"
    /\ queries' = [queries EXCEPT ![k] = Removed]
    /\ fetchedWith' = [fetchedWith EXCEPT ![k] = Null]
    /\ sent' = {}
    /\ UNCHANGED <<mutation, sliceVars, dayVars, payloadVars, calendarVars,
                   timeZone, dateString, localDate, analyticsVars, uiVars, customerVars>>

\* the response of a query arrives
QuerySettles(k) ==
    /\ queries[k].status \in {"pending", "refetching"}
    /\ AuthRequestCompleted([queries EXCEPT ![k].status = "fulfilled"],
                            mutation, {}, token)
    /\ UNCHANGED <<mutation, sliceVars, dayVars, payloadVars,
                   invalidationBehavior, monthFetch, monthData, timeZone,
                   dateString, localDate, analyticsVars, uiVars, customerVars>>

\* a handler of a mounted screen calls a mutation trigger
ScreenSendsMutation(a) ==
    /\ navigator = "MainNavigator"
    /\ ~MutationPending(mutation)
    /\ mutation' = [status |-> "pending", arg |-> a]
    /\ sent' = {Request(a.endpoint, token)}
    /\ UNCHANGED <<queries, fetchedWith, sliceVars, dayVars, payloadVars,
                   calendarVars, timeZone, dateString, localDate,
                   analyticsVars, uiVars, customerVars>>

\* the response of a screen's mutation arrives: its tags are invalidated
MutationSettles(outcome) ==
    /\ MutationPending(mutation)
    /\ mutation.arg.endpoint # "login"
    /\ mutation' = [mutation EXCEPT !.status = outcome]
    /\ AuthRequestCompleted(queries, mutation',
                            InvalidatesTags(mutation.arg), token)
    /\ UNCHANGED <<sliceVars, dayVars, payloadVars, invalidationBehavior,
                   monthFetch, monthData, timeZone, dateString, localDate,
                   analyticsVars, uiVars, customerVars>>

AuthNext ==
    \/ handleSignIn
    \/ \E outcome \in {"fulfilled", "rejected"} : \E result \in LoginResults :
            LoginSettles(outcome, result)
    \/ LogoutPressed
    \/ \E k \in ScreenQueryKeys : ScreenMounts(k)
    \/ \E k \in ScreenQueryKeys : ScreenUnmounts(k)
    \/ \E k \in ScreenQueryKeys : EntryExpires(k)
    \/ \E k \in ScreenQueryKeys : QuerySettles(k)
    \/ \E a \in ScreenMutationArgs : ScreenSendsMutation(a)
    \/ \E outcome \in {"fulfilled", "rejected"} : MutationSettles(outcome)

\* C19: every request sent to a workout, catalog or analytics endpoint
\* carries the Authorization header "Bearer <token>" of the token that is
\* in the auth state, and none is sent while that token is null
C19_RequestsCarryToken ==
    \A r \in sent :
        r.endpoint \notin AuthEndpoints =>
            /\ token # NullToken
            /\ r.authorization = <<"Bearer", token>>

\* signed in with the second token, and with an entry in the cache that no
\* screen is mounted on, a completed save makes the cache request the
\* mounted day again
C19_Witness ==
    /\ token = <<"b">>
    /\ mutation.status = "fulfilled"
    /\ mutation.arg.endpoint = "saveDayWorkout"
    /\ Request("getDayWorkout", <<"b">>) \in sent
    /\ \E k \in ScreenQueryKeys :
            queries[k].status = "fulfilled" /\ ~queries[k].subscribed

\* C29: a cache entry that a mounted screen is served was fetched with the
\* token of the user signed in
C29_NoCrossUserCache ==
    \A k \in ScreenQueryKeys :
        (queries[k].subscribed /\ queries[k].status = "fulfilled")
            => fetchedWith[k] = token

\* the entries left in the cache when nobody is signed in
C29_LogoutLeavesCache ==
    /\ navigator = "AuthNavigator"
    /\ \E k \in ScreenQueryKeys :
            queries[k].status = "fulfilled" /\ fetchedWith[k] = <<"a">>

\* an entry is served only from a request sent while a user was signed in
C29_FetchedWhileSignedIn ==
    \A k \in ScreenQueryKeys :
        queries[k].status # "uninitialized" => fetchedWith[k] \in Tokens

----------------------------------------------------------------------------
(* The auth slice under all four of its actions *)

\* setLoading is dispatched
DispatchSetLoading ==
    /\ Dispatch(setLoading(AuthState))
    /\ sent' = {}
    /\ UNCHANGED <<queries, mutation, fetchedWith, dayVars, payloadVars,
                   calendarVars, timeZone, dateString, localDate,
                   analyticsVars, uiVars, customerVars>>

\* setError is dispatched with an error payload
DispatchSetError(payload) ==
    /\ Dispatch(setError(AuthState, payload))
    /\ sent' = {}
    /\ UNCHANGED <<queries, mutation, fetchedWith, dayVars, payloadVars,
                   calendarVars, timeZone, dateString, localDate,
                   analyticsVars, uiVars, customerVars>>

SliceNext ==
    \/ handleSignIn
    \/ \E outcome \in {"fulfilled", "rejected"} : \E result \in LoginResults :
            LoginSettles(outcome, result)
    \/ LogoutPressed
    \/ DispatchSetLoading
    \/ \E payload \in ErrorPayloads : DispatchSetError(payload)
    \/ \E k \in ScreenQueryKeys : ScreenMounts(k)
    \/ \E k \in ScreenQueryKeys : ScreenUnmounts(k)
    \/ \E k \in ScreenQueryKeys : QuerySettles(k)

\* C28: selectIsAuthenticated is true exactly when the token is not null;
\* MainNavigator is shown exactly when authenticated and AuthNavigator
\* otherwise; logout sets token, refreshToken, user and error to null and
\* status to 'idle'; setLoading and setError leave token, refreshToken and
\* user as they were
C28_AuthStateMachine ==
    /\ [](/\ selectIsAuthenticated(AuthState) <=> token # Null
          /\ navigator = IF selectIsAuthenticated(AuthState)
                         THEN "MainNavigator" ELSE "AuthNavigator")
    /\ [][LogoutPressed =>
            /\ token' = Null /\ refreshToken' = Null /\ user' = Null
            /\ error' = Null /\ status' = "idle"]_vars
    /\ [][(DispatchSetLoading \/ \E payload \in ErrorPayloads :
                                     DispatchSetError(payload))
            => UNCHANGED <<token, refreshToken, user>>]_vars

\* the second account is signed in with a screen mounted, and setError has
\* put an error into the slice
C28_Witness ==
    /\ token = <<"b">> /\ refreshToken = Null /\ user = <<"b", "o", "b">>
    /\ status = "failed" /\ error = <<"e">>
    /\ navigator = "MainNavigator"
    /\ \E k \in ScreenQueryKeys : queries[k].subscribed

\* signed out again with nothing of the failed attempt left in the slice
C28_SignedOut ==
    /\ AuthState = initialState
    /\ navigator = "AuthNavigator"
    /\ \E k \in ScreenQueryKeys : queries[k].status = "fulfilled"

----------------------------------------------------------------------------
(* WorkoutDayScreen: the day totals under the list of entries *)

\* localTotalWeight: the sum over the local entries of
\* (parseInt(sets) || 0) * (parseInt(reps) || 0) * (parseFloat(weight) || 0),
\* as a number scaled by Scale
RECURSIVE localTotalWeight(_)
localTotalWeight(es) ==
    IF es = <<>> THEN 0
    ELSE IntOf(OrElse(parseInt(es[1].sets), JsInt(0)))
         * IntOf(OrElse(parseInt(es[1].reps), JsInt(0)))
         * OrElse(parseFloat(es[1].weight), JsInt(0)).v
         + localTotalWeight(Tail(es))

\* localTotalReps: the sum of (parseInt(sets) || 0) * (parseInt(reps) || 0)
RECURSIVE localTotalReps(_)
localTotalReps(es) ==
    IF es = <<>> THEN 0
    ELSE IntOf(OrElse(parseInt(es[1].sets), JsInt(0)))
         * IntOf(OrElse(parseInt(es[1].reps), JsInt(0)))
         + localTotalReps(Tail(es))

StrengthFields == {"sets", "reps", "weight"}

\* the day is open, loaded and empty; formField and formText are what the
\* user is going to type into the strength form
InitTotals ==
    /\ date = Date1
    /\ persisted = [d \in Dates |-> EmptyDay]
    /\ workoutData = <<EmptyDay>>
    /\ notes = "" /\ entries = <<>> /\ cardioEntries = <<>>
    /\ notesRef = "" /\ entriesRef = <<>> /\ cardioEntriesRef = <<>>
    /\ strengthModal = ClosedStrengthModal
    /\ cardioModal = ClosedCardioModal
    /\ saves = <<>>
    /\ fetch = NoFetch
    /\ queries = [k \in QueryKeys |->
            IF k = QueryKey("getDayWorkout", date, 0, 0, 0)
               \/ k.endpoint \in {"getExercises", "getCardioTypes"}
            THEN [status |-> "fulfilled", subscribed |-> TRUE]
            ELSE Removed]
    /\ mutation = NoMutation
    /\ formField \in StrengthFields /\ formText \in Texts
    /\ builtPayload = <<>>
    /\ CalendarIdle /\ ScreensIdle

\* onChangeText of the sets, reps and weight inputs of the strength modal
TypeStrengthField ==
    /\ strengthModal.visible /\ ~strengthModal.alert
    /\ strengthModal.form[formField] # formText
    /\ strengthModal' = [strengthModal EXCEPT !.form[formField] = formText]
    /\ UNCHANGED <<date, localVars, cardioModal, workoutData, saves, fetch,
                   persisted, queries, mutation, payloadVars,
                   calendarVars, screenVars>>

TotalsNext ==
    \/ openAddStrengthModal
    \/ \E x \in PickerExercises : handleSelectExercise(x)
    \/ TypeStrengthField
    \/ handleSaveStrength
    \/ DismissStrengthAlert
    \/ \E i \in 1..MaxSaves : ServerSave(i)
    \/ \E i \in 1..MaxSaves : ServerSaveFails(i)
    \/ ServerFetch
    \/ \E i \in 1..MaxSaves : SaveSettles(i)
    \/ FetchSettles

\* no save of the screen is waiting for its response, and every entry
\* shown refers to an exercise the server stores entries for
SavesSettled ==
    /\ Loaded /\ Unresolved = {}
    /\ \A i \in 1..Len(entries) : entries[i].exercise_id \in OwnedExercises

\* C20: whenever no save is under way, the total weight and the total reps
\* the day screen shows are the sums of sets*reps*weight and of sets*reps
\* over the strength entries persisted for the day, whatever text was typed
C20_ShownTotalsArePersisted ==
    SavesSettled =>
        /\ localTotalWeight(entries) = TotalVolume(persisted[date].entries)
        /\ localTotalReps(entries) = TotalReps(persisted[date].entries)

\* while the local entries are those made from the day as it is persisted,
\* the totals shown are those of the persisted entries
C20_ShownTotalsOfFetchedEntries ==
    (SavesSettled /\ entries = LocalEntries(ServerGetDay(persisted, date))) =>
        /\ localTotalWeight(entries) = TotalVolume(persisted[date].entries)
        /\ localTotalReps(entries) = TotalReps(persisted[date].entries)

\* a saved entry is shown as the server returned it, with totals that are
\* not zero
C20_Reached ==
    /\ SavesSettled /\ saves # <<>>
    /\ Len(persisted[date].entries) = 1
    /\ entries = LocalEntries(ServerGetDay(persisted, date))
    /\ localTotalReps(entries) > 0

----------------------------------------------------------------------------
(* CalendarScreen: the day opened from a cell, and the month tag of its save *)

\* the calendar is mounted on a month without workouts, on a machine west
\* of Greenwich whose zone skips an hour
InitCell ==
    /\ selectedYear \in CalendarYears
    /\ selectedMonth \in Months
    /\ timeZone = [offset |-> -300, skipped |-> 60]
    /\ monthData = <<[days_with_workouts |-> {}]>>
    /\ calendarCells = <<>>
    /\ invalidationBehavior = "immediately"
    /\ pendingTagInvalidations = {}
    /\ monthFetch = NoMonthFetch
    /\ dateString = <<>> /\ localDate = <<>>
    /\ AnalyticsIdle /\ AuthIdle /\ CustomersIdle
    /\ DayIdle /\ PayloadIdle
    /\ queries = NoQueries /\ mutation = NoMutation

\* handleYearSelect(year)
handleYearSelect(year) ==
    /\ calendarCells # <<>>
    /\ year # selectedYear
    /\ selectedYear' = year
    /\ calendarCells' = CalendarCells(year, selectedMonth, monthData)
    /\ UNCHANGED <<cacheVars, dayVars, payloadVars, calendarVars, timeZone,
                   dateString, localDate, analyticsVars, selectedMonth,
                   authVars, customerVars>>

\* handleDayPress(dateStr) of a day cell: the day screen is opened with the
\* cell's date string as route.params.date
handleDayPress(i) ==
    /\ i \in DOMAIN calendarCells
    /\ calendarCells[i].type = "day"
    /\ date' = calendarCells[i].dateStr
    /\ UNCHANGED <<cacheVars, localVars, modalVars, workoutData, saves, fetch,
                   persisted, payloadVars, calendarVars, screenVars>>

\* most cells of a grid: six blanks and 31 days
MaxCells == 37

CellNext ==
    \/ RenderCalendar
    \/ \E month \in Months : handleMonthSelect(month)
    \/ \E year \in CalendarYears : handleYearSelect(year)
    \/ \E i \in 1..MaxCells : handleDayPress(i)

\* the MonthWorkouts tag that getMonthWorkouts({year, month}) provides
ProvidedMonthTag(year, month) ==
    Tag("MonthWorkouts", MonthTagId(JsInt(year), JsInt(month)))

\* a cache that holds the result of one query
Holding(k) == [j \in {k} |-> [status |-> "fulfilled", subscribed |-> TRUE]]

\* a save of the date invalidates the month query of the calendar
SaveHitsShownMonth(dateStr) ==
    /\ ProvidedMonthTag(selectedYear, selectedMonth)
            \in ProvidesTags(MonthKey(selectedYear, selectedMonth))
    /\ ProvidedMonthTag(selectedYear, selectedMonth)
            \in SaveInvalidatesTags(dateStr)
    /\ Hit(Holding(MonthKey(selectedYear, selectedMonth)),
           MonthKey(selectedYear, selectedMonth), SaveInvalidatesTags(dateStr))

\* C23: for every year of the dropdown, month and day, the date string of
\* the day's cell gives saveDayWorkout the month tag id that the calendar's
\* getMonthWorkouts query provides, and the day opened from a cell is
\* opened with a date whose save invalidates that query
C23_CellDateGivesMonthTag ==
    /\ [](\A i \in DayCells : SaveHitsShownMonth(calendarCells[i].dateStr))
    /\ [][\A i \in 1..MaxCells :
            handleDayPress(i) => SaveHitsShownMonth(date')]_vars

\* the day of the last cell of December 2026 is open
C23_Witness ==
    /\ selectedYear = 2026 /\ selectedMonth = 12
    /\ Len(calendarCells) > 31
    /\ date = calendarCells[Len(calendarCells)].dateStr
    /\ date = <<"2", "0", "2", "6", "-", "1", "2", "-", "3", "1">>
    /\ SaveInvalidatesTags(date) =
            {Tag("Workout", date),
             Tag("MonthWorkouts", <<"2", "0", "2", "6", "-", "1", "2">>),
             Tag("Analytics", NoTagId)}

----------------------------------------------------------------------------
(* WorkoutDayScreen: adding and editing entries on a day with several *)

\* a day with two strength entries, told apart by their sets, and one
\* cardio entry
TwoEntryDay ==
    [notes |-> "",
     entries |-> <<StrengthPayload([EmptyStrengthForm EXCEPT !.exercise_id = 1]),
                   StrengthPayload([EmptyStrengthForm EXCEPT
                                        !.exercise_id = 1, !.sets = <<"1">>])>>,
     cardio_entries |-> <<CardioPayload([EmptyCardioForm EXCEPT
                                            !.cardio_type_id = 1])>>]

\* longest list shown on the day that is edited
MaxShown == 2

\* the day screen is loaded on an empty day or on the day with two entries
InitEdit ==
    /\ date = Date1
    /\ persisted \in [Dates -> {EmptyDay, TwoEntryDay}]
    /\ persisted[Date2] = EmptyDay
    /\ workoutData = <<ServerGetDay(persisted, date)>>
    /\ notes = workoutData[1].notes
    /\ entries = LocalEntries(workoutData[1])
    /\ cardioEntries = LocalCardioEntries(workoutData[1])
    /\ notesRef = notes /\ entriesRef = entries
    /\ cardioEntriesRef = cardioEntries
    /\ strengthModal = ClosedStrengthModal
    /\ cardioModal = ClosedCardioModal
    /\ saves = <<>>
    /\ fetch = NoFetch
    /\ queries = [k \in QueryKeys |->
            IF k = QueryKey("getDayWorkout", date, 0, 0, 0)
               \/ k.endpoint \in {"getExercises", "getCardioTypes"}
            THEN [status |-> "fulfilled", subscribed |-> TRUE]
            ELSE Removed]
    /\ mutation = NoMutation
    /\ PayloadIdle /\ CalendarIdle /\ ScreensIdle

EditNext ==
    \/ openAddStrengthModal
    \/ \E i \in 1..MaxShown : openEditStrengthModal(i)
    \/ \E x \in PickerExercises : handleSelectExercise(x)
    \/ TypeStrengthField
    \/ CancelStrengthModal
    \/ handleSaveStrength
    \/ DismissStrengthAlert
    \/ openAddCardioModal
    \/ \E i \in 1..MaxShown : openEditCardioModal(i)
    \/ \E c \in PickerCardioTypes : handleSelectCardioType(c)
    \/ CancelCardioModal
    \/ handleSaveCardio
    \/ DismissCardioAlert
    \/ \E i \in 1..MaxSaves : ServerSave(i)
    \/ \E i \in 1..MaxSaves : ServerSaveFails(i)
    \/ ServerFetch
    \/ \E i \in 1..MaxSaves : SaveSettles(i)
    \/ FetchSettles

\* this step is a form's submit sending its save
FormSubmits(h) ==
    /\ Len(saves') = Len(saves) + 1
    /\ saves'[Len(saves')].handler = h

\* this step is the response of a form's save arriving
FormSaveSucceeds(i, h) ==
    /\ i \in DOMAIN saves /\ saves[i].handler = h
    /\ saves[i].stage = "applied" /\ saves'[i].stage = "fulfilled"

FormSaveFails(i, h) ==
    /\ i \in DOMAIN saves /\ saves[i].handler = h
    /\ saves[i].stage = "refused" /\ saves'[i].stage = "rejected"

\* list b is list a with the element at index replaced by e
ReplacedAt(a, b, index, e) ==
    /\ Len(b) = Len(a)
    /\ index \in 1..Len(a)
    /\ b[index] = e
    /\ \A j \in 1..Len(a) : j # index => b[j] = a[j]

\* the list a submit sends is the list on screen with the form appended or,
\* in edit mode, put in place of the entry at the edited index
SubmitBuilds(modal, list, built) ==
    IF modal.mode = "add" THEN built = Append(list, modal.form)
    ELSE ReplacedAt(list, built, modal.index, modal.form)

\* what a form's save does to the local lists and the forms in this step:
\* the submit changes nothing, a failure changes nothing, a success puts
\* the list sent on screen, leaves the other list alone and closes the form
FormSavesArePessimistic ==
    /\ \A h \in {"strength", "cardio"} :
            FormSubmits(h) =>
                UNCHANGED <<entries, cardioEntries, strengthModal, cardioModal>>
    /\ \A i \in 1..MaxSaves :
            /\ FormSaveFails(i, "strength") =>
                    UNCHANGED <<entries, cardioEntries, strengthModal>>
            /\ FormSaveFails(i, "cardio") =>
                    UNCHANGED <<entries, cardioEntries, cardioModal>>
            /\ FormSaveSucceeds(i, "strength") =>
                    /\ entries' = saves[i].heldEntries
                    /\ cardioEntries' = cardioEntries
                    /\ ~strengthModal'.visible
            /\ FormSaveSucceeds(i, "cardio") =>
                    /\ cardioEntries' = saves[i].heldCardio
                    /\ entries' = entries
                    /\ ~cardioModal'.visible

\* C25: a submit of the strength or cardio form changes neither local list
\* and leaves the form open; the list it sends is the list on screen with
\* the form appended or, in edit mode, with exactly the entry at the edited
\* index replaced; when the save fails both lists and the form stay as they
\* are (open, unless the user has cancelled it); when it succeeds the list
\* sent becomes the local list, the other list is untouched and the form
\* closes
C25_AddAndEditArePessimistic ==
    [][/\ FormSavesArePessimistic
       /\ FormSubmits("strength") =>
            SubmitBuilds(strengthModal, entries, saves'[Len(saves')].heldEntries)
       /\ FormSubmits("cardio") =>
            SubmitBuilds(cardioModal, cardioEntries,
                         saves'[Len(saves')].heldCardio)]_vars

\* the same, asking for the replaced entry only of an edit whose index is
\* still an index of the list on screen
C25_PessimisticWithinTheList ==
    [][/\ FormSavesArePessimistic
       /\ (/\ FormSubmits("strength")
           /\ strengthModal.mode = "edit" => strengthModal.index <= Len(entries))
          => SubmitBuilds(strengthModal, entries,
                          saves'[Len(saves')].heldEntries)
       /\ (/\ FormSubmits("cardio")
           /\ cardioModal.mode = "edit" => cardioModal.index <= Len(cardioEntries))
          => SubmitBuilds(cardioModal, cardioEntries,
                          saves'[Len(saves')].heldCardio)]_vars

\* an edit was submitted whose index is no index of the list on screen:
\* the list sent is the list on screen, and the form's entry is in neither
C25_EditOfNoEntry ==
    [][(/\ FormSubmits("strength")
        /\ strengthModal.mode = "edit"
        /\ strengthModal.index > Len(entries))
       => saves'[Len(saves')].heldEntries = entries]_vars

\* nothing of the day is under way, and the save made last succeeded
SavedAndRefetched ==
    /\ Loaded
    /\ saves # <<>>
    /\ saves[Len(saves)].stage = "fulfilled"
    /\ Unresolved = {}
    /\ fetch = NoFetch

\* the local state is the persisted day's
LocalIsPersisted ==
    /\ notes = ServerGetDay(persisted, date).notes
    /\ entries = LocalEntries(ServerGetDay(persisted, date))
    /\ cardioEntries = LocalCardioEntries(ServerGetDay(persisted, date))

\* every entry on screen refers to a row the server stores entries for
LocalIsStorable ==
    /\ \A j \in DOMAIN entries : entries[j].exercise_id \in OwnedExercises
    /\ \A j \in DOMAIN cardioEntries :
            cardioEntries[j].cardio_type_id \in OwnedCardioTypes

\* C26: once a save has succeeded and the refetch it started has completed,
\* the notes, strength entries and cardio entries on screen are those of
\* the persisted day
C26_LocalConvergesToPersisted ==
    (SavedAndRefetched /\ LocalIsStorable) => LocalIsPersisted

\* the sets of the second entry were cleared in the edit form and saved;
\* the save stored the 1 that was stored before, the refetch brought the
\* day the screen already held, and the cleared text is still on screen
C26_ClearedTextStays ==
    /\ SavedAndRefetched /\ LocalIsStorable
    /\ Len(saves) = 1
    /\ persisted[date] = TwoEntryDay
    /\ workoutData = <<TwoEntryDay>>
    /\ entries[2].sets = <<>>

\* the second of two strength entries was edited to another exercise and
\* the save succeeded: the first entry and the cardio entry are as loaded
C25_EditReached ==
    /\ Len(saves) = 1 /\ saves[1].stage = "fulfilled"
    /\ saves[1].handler = "strength"
    /\ Len(entries) = 2
    /\ entries[1] = LocalEntries(TwoEntryDay)[1]
    /\ entries[2] = [LocalEntries(TwoEntryDay)[2] EXCEPT !.exercise_id = 2]
    /\ cardioEntries = LocalCardioEntries(TwoEntryDay)
    /\ ~strengthModal.visible

\* an edit of the first strength entry failed: the lists are as loaded and
\* the form is open on the edit
C25_FailedEditReached ==
    /\ Len(saves) = 1 /\ saves[1].stage = "rejected"
    /\ saves[1].handler = "strength"
    /\ entries = LocalEntries(TwoEntryDay)
    /\ strengthModal.visible /\ strengthModal.mode = "edit"
    /\ strengthModal.form.exercise_id = 2

----------------------------------------------------------------------------
(* customerSlice: the customers list under overlapping requests *)

\* the greatest number of thunks in flight at once
MaxThunks == 2

\* the greatest length the customers list is followed to
MaxCustomers == 2

\* what the add-customer form submits, and what the server answers
CustomerData == {"ann", "bob"}
CreatedCustomer(customerData) == [id |-> 1, first_name |-> customerData]
FetchedLists == {<<>>, <<CreatedCustomer("ann")>>}
ErrorMessages == {<<"Failed to fetch customers">>}

fetchCustomersPending(state) ==
    [state EXCEPT !.loading = TRUE, !.error = Null]

fetchCustomersFulfilled(state, payload) ==
    [state EXCEPT !.loading = FALSE, !.customers = payload, !.error = Null]

fetchCustomersRejected(state, payload) ==
    [state EXCEPT !.loading = FALSE, !.error = payload]

createCustomerPending(state) ==
    [state EXCEPT !.loading = TRUE, !.error = Null]

createCustomerFulfilled(state, payload) ==
    [state EXCEPT !.loading = FALSE,
                  !.customers = Append(@, payload),
                  !.error = Null]

createCustomerRejected(state, payload) ==
    [state EXCEPT !.loading = FALSE, !.error = payload]

clearError(state) == [state EXCEPT !.error = Null]

\* a list without its element at index i
WithoutIndex(s, i) == SubSeq(s, 1, i - 1) \o SubSeq(s, i + 1, Len(s))

InitCustomers ==
    /\ CustomersIdle
    /\ queries = NoQueries /\ mutation = NoMutation
    /\ DayIdle /\ PayloadIdle /\ CalendarIdle
    /\ timeZone = [offset |-> 0, skipped |-> 0]
    /\ dateString = <<>> /\ localDate = <<>>
    /\ AnalyticsIdle /\ UiIdle /\ AuthIdle

\* a thunk is dispatched: its pending action reaches the reducer at once
ThunkDispatched(type, arg, next) ==
    /\ thunks' = Append(thunks, [type |-> type, arg |-> arg])
    /\ customersState' = next
    /\ UNCHANGED <<cacheVars, dayVars, payloadVars, calendarVars, timeZone,
                   dateString, localDate, analyticsVars, uiVars, authVars>>

\* HomePage mounts (the app starts, router.push('/') or a Link to "/"
\* puts a new HomePage on the stack): its effect dispatches fetchCustomers
HomePageMounts ==
    /\ Len(thunks) < MaxThunks
    /\ ThunkDispatched("fetchCustomers", "",
                       fetchCustomersPending(customersState))

\* HomePage.handleRefresh: the Refresh button is disabled while loading
handleRefresh ==
    /\ ~customersState.loading
    /\ Len(thunks) < MaxThunks
    /\ ThunkDispatched("fetchCustomers", "",
                       fetchCustomersPending(customersState))

\* AddCustomerPage.handleSubmit: the submit button is disabled while
\* loading
handleSubmit(customerData) ==
    /\ ~customersState.loading
    /\ Len(customersState.customers) < MaxCustomers
    /\ Len(thunks) < MaxThunks
    /\ ThunkDispatched("createCustomer", customerData,
                       createCustomerPending(customersState))

\* the response of thunk i arrives with a 2xx status
ThunkFulfils(i, list) ==
    /\ i \in DOMAIN thunks
    /\ thunks' = WithoutIndex(thunks, i)
    /\ customersState' =
            IF thunks[i].type = "fetchCustomers"
            THEN fetchCustomersFulfilled(customersState, list)
            ELSE createCustomerFulfilled(customersState,
                                         CreatedCustomer(thunks[i].arg))
    /\ UNCHANGED <<cacheVars, dayVars, payloadVars, calendarVars, timeZone,
                   dateString, localDate, analyticsVars, uiVars, authVars>>

\* the request of thunk i fails: rejectWithValue(error.message)
ThunkRejects(i, message) ==
    /\ i \in DOMAIN thunks
    /\ thunks' = WithoutIndex(thunks, i)
    /\ customersState' =
            IF thunks[i].type = "fetchCustomers"
            THEN fetchCustomersRejected(customersState, message)
            ELSE createCustomerRejected(customersState, message)
    /\ UNCHANGED <<cacheVars, dayVars, payloadVars, calendarVars, timeZone,
                   dateString, localDate, analyticsVars, uiVars, authVars>>

\* the Clear button under the error of AddCustomerPage
ClearErrorPressed ==
    /\ customersState.error # Null
    /\ customersState' = clearError(customersState)
    /\ UNCHANGED <<thunks, cacheVars, dayVars, payloadVars, calendarVars,
                   timeZone, dateString, localDate, analyticsVars, uiVars,
                   authVars>>

CustomersNext ==
    \/ HomePageMounts
    \/ handleRefresh
    \/ \E customerData \in CustomerData : handleSubmit(customerData)
    \/ \E i \in 1..MaxThunks : \E list \in FetchedLists : ThunkFulfils(i, list)
    \/ \E i \in 1..MaxThunks : \E message \in ErrorMessages :
            ThunkRejects(i, message)
    \/ ClearErrorPressed

\* what the reducers do to the list and the error: a fulfilled
\* createCustomer appends the created customer, a rejected request leaves
\* the list and sets the error, a pending request clears the error
ReducersKeepListAndError ==
    /\ \A i \in 1..MaxThunks : \A list \in FetchedLists :
        (ThunkFulfils(i, list) /\ thunks[i].type = "createCustomer") =>
            customersState'.customers =
                Append(customersState.customers, CreatedCustomer(thunks[i].arg))
    /\ \A i \in 1..MaxThunks : \A message \in ErrorMessages :
        ThunkRejects(i, message) =>
            /\ customersState'.customers = customersState.customers
            /\ customersState'.error = message
    /\ (\/ HomePageMounts \/ handleRefresh
        \/ \E customerData \in CustomerData : handleSubmit(customerData))
            => customersState'.error = Null

\* C30: loading is true exactly while a fetchCustomers or createCustomer is
\* pending, in every interleaving of the two; createCustomer.fulfilled
\* appends the created customer, a rejected request leaves the list and
\* sets error, a pending request clears error
C30_LoadingWhilePending ==
    /\ [](customersState.loading <=> thunks # <<>>)
    /\ [][ReducersKeepListAndError]_vars

\* the reducers' part of the claim, and loading being true only while a
\* request is pending
C30_LoadingOnlyWhilePending ==
    /\ [](customersState.loading => thunks # <<>>)
    /\ [][ReducersKeepListAndError]_vars

\* a request is pending and loading is false
C30_PendingNotLoading ==
    /\ ~customersState.loading
    /\ \E i \in DOMAIN thunks : thunks[i].type = "fetchCustomers"
    /\ customersState.customers = <<CreatedCustomer("bob")>>

----------------------------------------------------------------------------
(* Specifications *)

\* the query cache under screens and mutations
Init == CacheInit /\ DayIdle /\ PayloadIdle /\ CalendarIdle /\ ScreensIdle

Spec == Init /\ [][Next]_vars

\* one visit of the day screen, with the server
InitDay == DayInit /\ PayloadIdle /\ CalendarIdle /\ ScreensIdle

SpecDay == InitDay /\ [][DayNext]_vars

\* the server's day store under the payloads day screens post
InitServer == ServerInit /\ PayloadIdle /\ CalendarIdle /\ ScreensIdle

SpecServer == InitServer /\ [][ServerNext]_vars

\* the payload of every text
InitPayload ==
    /\ PayloadInit /\ DayIdle /\ CalendarIdle /\ ScreensIdle
    /\ queries = NoQueries /\ mutation = NoMutation

SpecPayload == InitPayload /\ [][PayloadNext]_vars

\* saveWorkout on every pair of lists
SpecLists == InitLists /\ [][ListsNext]_vars

\* the strength and cardio forms of a loaded day screen
SpecForm == InitForm /\ [][FormNext]_vars


\* the day screen over the calendar, under either invalidation behaviour
SpecMonth == InitMonth /\ [][MonthNext]_vars


\* parseLocalDate on every well-formed string in every time zone
SpecDates == InitDates /\ [][DatesNext]_vars


\* the analytics screen over every small store
SpecHistory == InitHistory /\ [][HistoryNext]_vars


\* the calendar grid of every month and summary
SpecCalendar == InitCalendar /\ [][CalendarNext]_vars

SpecAuth == InitAuth /\ [][AuthNext]_vars

SpecTotals == InitTotals /\ [][TotalsNext]_vars

SpecCell == InitCell /\ [][CellNext]_vars

SpecEdit == InitEdit /\ [][EditNext]_vars

SpecSlice == InitAuth /\ [][SliceNext]_vars

SpecCustomers == InitCustomers /\ [][CustomersNext]_vars

====
